---- MODULE Spec2Model ----
(***************************************************************************)
(* Model of the dev-twin agent execution engine:                           *)
(*   - the plan store (tools/lc_tools.py, plan_update) and the finalize    *)
(*     validator (llm/validation.py),                                      *)
(*   - the tool loop (llm/tool_loop.py, llm/messages.py, llm/artifacts.py),*)
(*   - the workflow graph (graph.py, agents/coder.py, agents/test_lint.py),*)
(*   - the patch engine (tools/patch_apply.py, apply_patch tool).          *)
(* Each part has its own specification over the shared variables:          *)
(*   PlanSpec, LoopSpec, GraphSpec, PatchSpec.                             *)
(***************************************************************************)
EXTENDS Integers, Sequences, FiniteSets, TLC

VARIABLES
    plan_json,      \* artifacts/plan.json: [kind: absent|valid|corrupt, steps: Seq(Step)]
    plan_call,      \* PlanSpec: the plan_update call emitted and not yet executed
    messages,       \* run_tool_loop: the message history list
    step_index,     \* run_tool_loop: loop variable of "for step_index in range(max_steps)"
    pc,             \* run_tool_loop: position ("llm", "tools", "returned", "idle")
    tool_calls,     \* run_tool_loop: tool calls of the current turn not yet processed
    finalize_args,  \* run_tool_loop: finalize_args (NoArgs or the accepted args)
    events,         \* ArtifactsManager._event_sink
    trace,          \* observation log: LLM invocations, tool starts/returns of the loop,
                    \* lines written to events.jsonl and to the notes journal
    turn,           \* observation: what the current/last step did
    cfg,            \* run_tool_loop keyword arguments
    node,           \* workflow graph: the node about to run ("END" when finished)
    gstate,         \* workflow graph: the run state threaded between nodes
    tree,           \* patch engine: working tree, path -> file lines or NoFile
    patch_text,     \* patch engine: the patch handed to apply_patch (token lines)
    patch_out,      \* patch engine: result of apply_patch / of the inverse patch
    tool_out,       \* file tools: the last call of a path-taking tool and what it touched
    proc            \* shell tool: the call, the child process and the text returned

vars == <<plan_json, plan_call, messages, step_index, pc, tool_calls, finalize_args,
          events, trace, turn, cfg, node, gstate, tree, patch_text, patch_out, tool_out,
          proc>>

planVars  == <<plan_json, plan_call>>
loopVars  == <<messages, step_index, pc, tool_calls, finalize_args, events, trace, turn, cfg>>
graphVars == <<node, gstate>>
patchVars == <<tree, patch_text, patch_out, tool_out, proc>>

(***************************************************************************)
(* Generic helpers                                                         *)
(***************************************************************************)
Min(a, b) == IF a <= b THEN a ELSE b
Max(a, b) == IF a >= b THEN a ELSE b

RECURSIVE SumLen(_)
SumLen(s) == IF s = <<>> THEN 0 ELSE Head(s).len + SumLen(Tail(s))

SeqsUpTo(S, n) == UNION {[1..k -> S] : k \in 0..n}


\* Python slice s[a:]
From(s, a) == SubSeq(s, a + 1, Len(s))

(***************************************************************************)
(* Plan store: plan.json and the plan_update tool                          *)
(***************************************************************************)
\* Bounds of the plan model
MaxPlanLen == 2

NoStatus == "<absent>"      \* step dict without a "status" key
NoneId   == "<None>"        \* step dict without an "id" key (s.get("id") is None)

PlanIds      == {"a", ""}
\* statuses a caller passes in step dicts ("done" stands for any other string)
PlanStatuses == {NoStatus, "in_progress", "completed", "done"}
ValidStatuses == {"pending", "in_progress", "completed", "stuck"}

\* str(x) of an id value
Str(id) == IF id = NoneId THEN "None" ELSE id

\* isinstance(s.get("status"), str) and s.get("status")
StatusGiven(s) == s.status # NoStatus /\ s.status # ""

Step(i, st, c) == [id |-> i, status |-> st, completed |-> c]

\* Step dicts the plan_update caller may pass (no "completed" key: falsy)
StepArgs == {Step(i, st, FALSE) : i \in PlanIds, st \in PlanStatuses}

NoPlan == [kind |-> "absent", steps |-> <<>>]
\* a plan.json that json.loads rejects
CorruptPlan == [kind |-> "corrupt", steps |-> <<>>]
ValidPlan(steps) == [kind |-> "valid", steps |-> steps]

\* data.get("steps") or [] after json.loads, {} when the file is missing or unreadable
ExistingSteps(pj) == IF pj.kind = "valid" THEN pj.steps ELSE <<>>

\* existing_by_id: sid is a key (ids that stringify to "" are never entered)
ExistingHas(steps, sid) ==
    \E k \in 1..Len(steps) : Str(steps[k].id) # "" /\ Str(steps[k].id) = sid

\* existing_by_id[sid]: later entries overwrite earlier ones, so the last step wins
ExistingById(steps, sid) ==
    LET ks == {k \in 1..Len(steps) : Str(steps[k].id) = sid}
    IN steps[CHOOSE k \in ks : \A j \in ks : j <= k]

MergeStatusNoLookup(existing, s) ==
    IF StatusGiven(s) THEN s.status ELSE "pending"

\* the status plan_update(steps=...) stores for step dict s
MergeStatus(existing, s) ==
    LET sid == IF s.id # NoneId THEN Str(s.id) ELSE ""
    IN IF StatusGiven(s) THEN s.status
       ELSE IF sid # "" /\ ExistingHas(existing, sid)
            THEN LET cur == ExistingById(existing, sid)
                 IN IF StatusGiven(cur) THEN cur.status ELSE "pending"
            ELSE "pending"

\* plan_update(steps=S): replace the list, keeping statuses by rule
PlanReplace(pj, S) ==
    ValidPlan([k \in 1..Len(S) |->
                  [S[k] EXCEPT !.status = MergeStatus(ExistingSteps(pj), S[k])]])

\* One step under plan_update(mark_completed, mark_stuck, mark_in_progress);
\* mip = NoneId when mark_in_progress is not given, "" is falsy as well
MarkOne(s, mc, ms, mip) ==
    LET s1 == IF Str(s.id) \in mc THEN [s EXCEPT !.status = "completed"] ELSE s
        s2 == IF Str(s1.id) \in ms THEN [s1 EXCEPT !.status = "stuck"] ELSE s1
    IN IF mip = NoneId \/ mip = "" THEN s2
       ELSE IF Str(s2.id) = Str(mip) THEN [s2 EXCEPT !.status = "in_progress"]
       ELSE IF s2.status = "in_progress" THEN [s2 EXCEPT !.status = "pending"]
       ELSE s2

PlanMark(pj, mc, ms, mip) ==
    LET cur == ExistingSteps(pj)
    IN ValidPlan([k \in 1..Len(cur) |-> MarkOne(cur[k], mc, ms, mip)])

\* Arguments of one plan_update call
StepsCall(S) ==
    [given |-> TRUE, steps |-> S, mc |-> {}, ms |-> {}, mip |-> NoneId, none |-> FALSE, kept |-> {}]
MarksCall(mc, ms, mip) ==
    [given |-> FALSE, steps |-> <<>>, mc |-> mc, ms |-> ms, mip |-> mip, none |-> FALSE, kept |-> {}]
\* no call pending; kept observes the statuses the last call carried over
NoCall == [given |-> FALSE, steps |-> <<>>, mc |-> {}, ms |-> {}, mip |-> NoneId, none |-> TRUE, kept |-> {}]

\* The whole tool: "if steps is not None: ... return" else the marking path
plan_update(pj, call) ==
    IF call.given THEN PlanReplace(pj, call.steps)
    ELSE PlanMark(pj, call.mc, call.ms, call.mip)

(***************************************************************************)
(* Finalize validator (llm/validation.py)                                  *)
(***************************************************************************)
NoneCm == "<None>"      \* commit_message missing or not a string
\* commit_message values: a real message, empty, whitespace only, missing

CommitMessageOkNoStrip(cm) == cm # NoneCm /\ cm # ""

\* isinstance(commit_message_val, str) and commit_message_val.strip()
CommitMessageOk(cm) == cm # NoneCm /\ cm # "" /\ cm # " "

\* limits.max_stuck_ratio, default 0.6, as a fraction
MaxStuckRatioNum == 6
MaxStuckRatioDen == 10

\* status = step.get("status") or "pending"
EffStatus(s) == IF s.status = NoStatus \/ s.status = "" THEN "pending" ELSE s.status

StuckIdx(steps) == {k \in 1..Len(steps) : EffStatus(steps[k]) = "stuck"}

IncompleteIdxLax(steps) ==
    {k \in 1..Len(steps) : EffStatus(steps[k]) \notin {"stuck", "completed", "in_progress"}}

\* steps whose status is neither stuck nor completed
IncompleteIdx(steps) ==
    {k \in 1..Len(steps) : EffStatus(steps[k]) \notin {"stuck", "completed"}}

TooManyStuckAtThreshold(steps) ==
    /\ Len(steps) > 0
    /\ StuckIdx(steps) # {}
    /\ Cardinality(StuckIdx(steps)) * MaxStuckRatioDen >= MaxStuckRatioNum * Len(steps)

\* stuck_ratio > max_stuck_ratio
TooManyStuck(steps) ==
    /\ Len(steps) > 0
    /\ StuckIdx(steps) # {}
    /\ Cardinality(StuckIdx(steps)) * MaxStuckRatioDen > MaxStuckRatioNum * Len(steps)

\* limits.max_todo_count, default 10
MaxTodoCount == 10

\* _check_placeholder_implementations: the reasons for a repository holding
\* todo_count TODO/FIXME/XXX markers
_check_placeholder_implementations(todo_count) ==
    IF todo_count > MaxTodoCount THEN {"CRITICAL: TODO comments found"} ELSE {}

ValidatePlanCompletionGatingPlaceholders(pj) ==
    IF pj.kind # "valid"
    THEN [incomplete |-> FALSE, reasons |-> {}, steps |-> {}]
    ELSE [incomplete |-> IncompleteIdx(pj.steps) # {} \/ TooManyStuck(pj.steps),
          reasons |-> _check_placeholder_implementations(cfg.todo_count),
          steps |-> IncompleteIdx(pj.steps)]

\* _validate_plan_completion: [incomplete, reasons, steps]; a missing plan.json
\* gives (False, [], []); the caller swallows the exception of an unreadable one
ValidatePlanCompletion(pj) ==
    IF pj.kind # "valid"
    THEN [incomplete |-> FALSE, reasons |-> {}, steps |-> {}]
    ELSE IF TooManyStuck(pj.steps)
    THEN [incomplete |-> TRUE,
          reasons |-> {"too many steps marked as stuck - likely misuse"},
          steps |-> IncompleteIdx(pj.steps)]
    ELSE [incomplete |-> IncompleteIdx(pj.steps) # {},
          reasons |-> {},
          steps |-> IncompleteIdx(pj.steps)]

validate_finalize_args_blocking(cm, pj, has_artifacts_dir, check_plan_completion) ==
    LET r1 == IF CommitMessageOk(cm) THEN {} ELSE {"missing commit_message"}
        v  == IF check_plan_completion /\ has_artifacts_dir
              THEN ValidatePlanCompletion(pj)
              ELSE [incomplete |-> FALSE, reasons |-> {}, steps |-> {}]
        r2 == IF v.incomplete \/ (check_plan_completion /\ pj.kind # "valid")
              THEN {"plan has incomplete steps"} ELSE {}
        reasons == r1 \cup v.reasons \cup r2
    IN [ok |-> reasons = {}, reasons |-> reasons, incomplete_steps |-> v.steps]

\* validate_finalize_args: [ok, reasons, incomplete_steps]
validate_finalize_args(cm, pj, has_artifacts_dir, check_plan_completion) ==
    LET r1 == IF CommitMessageOk(cm) THEN {} ELSE {"missing commit_message"}
        v  == IF check_plan_completion /\ has_artifacts_dir
              THEN ValidatePlanCompletion(pj)
              ELSE [incomplete |-> FALSE, reasons |-> {}, steps |-> {}]
        r2 == IF v.incomplete THEN {"plan has incomplete steps"} ELSE {}
        reasons == r1 \cup v.reasons \cup r2
    IN [ok |-> reasons = {}, reasons |-> reasons, incomplete_steps |-> v.steps]

\* check_plan_incomplete (used for the empty-turn nudge): any status # "completed"
check_plan_incomplete(pj) ==
    /\ pj.kind = "valid"
    /\ \E k \in 1..Len(pj.steps) :
          (IF pj.steps[k].status = NoStatus THEN "pending" ELSE pj.steps[k].status)
              # "completed"

(***************************************************************************)
(* PlanSpec: any sequence of plan_update calls on plan.json                *)
(***************************************************************************)
\* observation: the statuses a steps call takes over from the previous plan
KeptStatuses(pj, call) ==
    IF ~call.given THEN {}
    ELSE {call.steps[k].id : k \in
             {j \in 1..Len(call.steps) :
                 /\ ~StatusGiven(call.steps[j])
                 /\ Str(call.steps[j].id) # ""
                 /\ ExistingHas(ExistingSteps(pj), Str(call.steps[j].id))}}

\* the LLM emits a plan_update call with a steps argument
PlanCallSteps ==
    /\ plan_call.none
    /\ \E S \in SeqsUpTo(StepArgs, MaxPlanLen) : plan_call' = StepsCall(S)
    /\ UNCHANGED plan_json

\* the LLM emits a plan_update call with mark_* arguments only
PlanCallMarks ==
    /\ plan_call.none
    /\ \E mc \in SUBSET PlanIds, ms \in SUBSET PlanIds, mip \in PlanIds \cup {NoneId} :
           plan_call' = MarksCall(mc, ms, mip)
    /\ UNCHANGED plan_json

\* the tool runs on the stored plan and writes plan.json
PlanUpdateRun ==
    /\ ~plan_call.none
    /\ plan_json' = plan_update(plan_json, plan_call)
    /\ plan_call' = [NoCall EXCEPT !.kept = KeptStatuses(plan_json, plan_call)]

(***************************************************************************)
(* Message history helpers (llm/messages.py)                               *)
(***************************************************************************)
\* Content lengths of the messages the loop builds itself
FirstLen     == 60      \* "<system>\n{prompt}\n</system>\n{input}"
TurnsLen     == 41      \* "<turns>\nstep=1\nremaining=2\nmax=3\n</turns>"
PlanWrapLen  == 15      \* "<plan>\n" + "\n</plan>"
StepTextLen  == 30      \* plan.json text per step
AiTextLen    == 50      \* an assistant turn with text
ErrTextLen   == 20      \* "LLM error: ..."
ArgsTextLen  == 40      \* str(args) of a finalize call
ContinueLen  == 113     \* continuation nudge of an empty turn
NudgeLen     == 188     \* nudge of a rejected finalize, before the step ids
UnknownLen   == 18      \* "Unknown tool X"
TruncMarkLen == 15      \* "\n...[truncated]"
ClipSlack    == 20      \* text[: limit - 20]

\* a message tied to tool calls: the assistant turn announcing them (tool_calls), the
\* echo of one call, the ToolMessage answering one; call is the tool_call_id carried
\* ("" for None) and uids the emissions concerned
CallMsg(role, tag, len, call, uids) ==
    [role |-> role, tag |-> tag, len |-> len, call |-> call, uids |-> uids]

Msg(role, tag, len, call) == CallMsg(role, tag, len, call, {})

\* len of text[:k] for a text of n characters (k may be negative)
PrefixLen(n, k) == IF k >= 0 THEN Min(n, k) ELSE Max(0, n + k)

\* clip_text on lengths
clip_text(n, limit) ==
    IF n <= limit THEN n ELSE PrefixLen(n, limit - ClipSlack) + TruncMarkLen

\* tail[-(k):] as Python evaluates it when len(tail) > k
LastOf(tail, k) ==
    IF k > 0 THEN SubSeq(tail, Len(tail) - k + 1, Len(tail))
    ELSE IF k = 0 THEN tail
    ELSE From(tail, Min(-k, Len(tail)))

\* the while loop of trim_messages: drop kept[1] while over budget and len > 2
RECURSIVE DropOldest(_, _)
DropOldest(kept, max_history_chars) ==
    IF SumLen(kept) > max_history_chars /\ Len(kept) > 2
    THEN DropOldest(<<kept[1]>> \o SubSeq(kept, 3, Len(kept)), max_history_chars)
    ELSE kept

trim_messages(msgs, keep_last_messages, max_history_chars) ==
    IF msgs = <<>> THEN msgs
    ELSE LET tail == Tail(msgs)
             kept == IF keep_last_messages = -1 THEN msgs
                     ELSE <<msgs[1]>> \o
                          (IF Len(tail) > keep_last_messages - 1
                           THEN LastOf(tail, keep_last_messages - 1) ELSE tail)
         IN DropOldest(kept, max_history_chars)

IsTransient(m) == m.role = "human" /\ m.tag \in {"plan", "turns"}

\* remove_last_plan_message: drop the last HumanMessage starting with <plan> or <turns>
remove_last_plan_message(msgs) ==
    LET ks == {k \in 1..Len(msgs) : IsTransient(msgs[k])}
    IN IF ks = {} THEN msgs
       ELSE LET i == CHOOSE k \in ks : \A j \in ks : j <= k
            IN SubSeq(msgs, 1, i - 1) \o SubSeq(msgs, i + 1, Len(msgs))

\* read_plan_text: the file's text when there is an artifacts dir and a plan.json
HasPlanText(pj, has_artifacts_dir) == has_artifacts_dir /\ pj.kind # "absent"
PlanTextLen(pj) == PlanWrapLen + StepTextLen * Len(pj.steps)


(***************************************************************************)
(* Tool loop (llm/tool_loop.py): inputs                                    *)
(***************************************************************************)
MaxSteps == 2           \* largest max_steps tried
MaxCalls == 2           \* most tool calls in one assistant turn

NoArgs == [cm |-> NoneCm, none |-> TRUE]        \* finalize_args = None
Args(cm) == [cm |-> cm, none |-> FALSE]

\* A tool call emitted by the LLM; uid identifies the emission (its {tool, args})
Call(name, cm, upd, res_len, raises) ==
    [name |-> name, id |-> "call", uid |-> 0, cm |-> cm, upd |-> upd,
     res_len |-> res_len, raises |-> raises]

MarkAllCompleted == MarksCall({"a", "b"}, {}, NoneId)

CallChoices ==
    {Call("finalize", cm, NoCall, 0, FALSE) : cm \in {"fix", "", " ", NoneCm}}
    \cup {Call("plan_update", NoneCm, MarkAllCompleted, 0, FALSE)}
    \cup {Call("shell", NoneCm, NoCall, 60, FALSE), Call("shell", NoneCm, NoCall, 0, TRUE)}
    \cup {Call("bogus", NoneCm, NoCall, 0, FALSE)}

\* the calls drawn for the turns that carry more than one call
FollowChoices ==
    {Call("finalize", "fix", NoCall, 0, FALSE),
     Call("plan_update", NoneCm, MarkAllCompleted, 0, FALSE),
     Call("shell", NoneCm, NoCall, 0, TRUE)}

\* calls the provider emits without an id: call.get("id") is None
NoIdChoices ==
    {[c EXCEPT !.id = ""] :
        c \in {Call("finalize", "fix", NoCall, 0, FALSE), Call("finalize", "", NoCall, 0, FALSE),
               Call("shell", NoneCm, NoCall, 60, FALSE), Call("bogus", NoneCm, NoCall, 0, FALSE)}}

RegisteredTools == {"plan_update", "shell", "finalize"}

\* a turn that calls finalize twice, first without and then with a commit message
FinalizeTwice ==
    {<<Call("finalize", "", NoCall, 0, FALSE), Call("finalize", "fix", NoCall, 0, FALSE)>>}

\* What one LLM invocation may produce
LLMOutcomes ==
    {[error |-> TRUE, content |-> "", calls |-> <<>>]}
    \cup {[error |-> FALSE, content |-> c, calls |-> <<>>] : c \in {"", " ", "text"}}
    \cup {[error |-> FALSE, content |-> "text", calls |-> <<c>>] : c \in CallChoices}
    \cup {[error |-> FALSE, content |-> "text", calls |-> cs] :
              cs \in SeqsUpTo(FollowChoices, MaxCalls) \ {<<>>}}
    \cup {[error |-> FALSE, content |-> "", calls |-> <<c>>] : c \in FollowChoices}
    \cup {[error |-> FALSE, content |-> "text", calls |-> cs] : cs \in FinalizeTwice}
    \cup {[error |-> FALSE, content |-> "text", calls |-> <<c>>] : c \in NoIdChoices}

ContentLen(c) == IF c = "" THEN 0 ELSE IF c = " " THEN 1 ELSE AiTextLen
\* content.strip() is non-empty
HasText(c) == c \notin {"", " "}

LoopConfigs ==
    {c \in [max_steps : {MaxSteps},
            stop_on_finalize : BOOLEAN,
            check_plan_completion : BOOLEAN,
            has_artifacts_dir : {TRUE},
            keep_last_messages : {4},
            max_history_chars : {150},
            max_tool_result_chars : {40},
            disk_fails : BOOLEAN,
            todo_count : {MaxTodoCount + 1}] :
        c.stop_on_finalize \/ c.check_plan_completion}

LoopInitPlans ==
    {NoPlan,
     ValidPlan(<<Step("a", "in_progress", FALSE), Step("b", "completed", FALSE)>>),
     ValidPlan(<<Step("a", NoStatus, FALSE)>>),
     ValidPlan(<<Step("a", "stuck", FALSE), Step("b", "completed", FALSE),
                 Step("c", "stuck", FALSE), Step("d", "stuck", FALSE),
                 Step("e", "stuck", FALSE)>>)}

(***************************************************************************)
(* Tool loop: events and observation                                       *)
(***************************************************************************)
Ev(type, tool, uid, result) == [type |-> type, tool |-> tool, uid |-> uid, result |-> result]

\* record_assistant_message: one assistant event when the text is non-empty
AssistantEvents(content, calls, step) ==
    IF HasText(content)
    THEN <<Ev("assistant", "", step, IF calls # <<>> THEN "has_tool_calls" ELSE "no_tool_calls")>>
    ELSE <<>>

append_event_unguarded(sink, evs, has_artifacts_dir, disk_fails) ==
    [sink |-> sink \o evs,
     written |-> IF has_artifacts_dir /\ ~disk_fails THEN Len(evs) ELSE 0,
     raised |-> has_artifacts_dir /\ disk_fails /\ evs # <<>>]

\* ArtifactsManager.append_event for each event of evs: the event goes to the sink,
\* then to events.jsonl under "try: ... except Exception: pass"; raised tells
\* whether an exception leaves the method
append_event(sink, evs, has_artifacts_dir, disk_fails) ==
    [sink |-> sink \o evs,
     written |-> IF has_artifacts_dir /\ ~disk_fails THEN Len(evs) ELSE 0,
     raised |-> FALSE]

\* ArtifactsManager.append_note for n notes: nothing without a notes path, else the
\* journal line and the regenerated notes.md, all under "except Exception: pass"
append_note(n, has_artifacts_dir, disk_fails) ==
    [written |-> IF has_artifacts_dir /\ ~disk_fails THEN n ELSE 0, raised |-> FALSE]

\* maybe_note_finalize: a note for a commit_message that is a non-empty string
FinalizeNotes(cm) == IF cm # NoneCm /\ cm # "" THEN 1 ELSE 0

\* note_shell_exit and maybe_note_read_not_found: the shell call of the inputs that
\* returns answers "$ cmd\n[exit 1]\n...", noted as shell_error; "Tool error: ..."
\* has no "[exit " and no other tool of the inputs is noted
ToolNotes(c) == IF c.name = "shell" /\ ~c.raises THEN 1 ELSE 0

\* _inject_context_messages: the transient messages appended at the start of a step
InjectedMessages(pj, has_artifacts_dir) ==
    (IF HasPlanText(pj, has_artifacts_dir)
     THEN <<Msg("human", "plan", PlanTextLen(pj), "")>> ELSE <<>>)
    \o <<Msg("human", "turns", TurnsLen, "")>>

ErrorEventsNone(error, step) == <<>>

\* the except clause around llm_with_tools.invoke: one event of type error
ErrorEvents(error, step) ==
    IF error THEN <<Ev("error", "", step, "invoke")>> ELSE <<>>

LoopContinuesOffByOne(i, max_steps) == i <= max_steps

\* "for step_index in range(max_steps)": there is an iteration number i (0-based)
LoopContinues(i, max_steps) == i < max_steps

\* where the loop goes after iteration i: the next iteration, or the final return
AfterStep(i, max_steps) == IF LoopContinues(i + 1, max_steps) THEN "llm" ELSE "returned"

NumberCalls(cs, step) ==
    [k \in 1..Len(cs) |-> [cs[k] EXCEPT !.uid = step * MaxCalls + k]]


ToolErrLen   == 25      \* "Tool error: ..."
PlanResLen   == 22      \* "PLAN_UPDATED 2 step(s)"
NudgeIdsLen  == 30      \* " Incomplete step ids: a, b."

\* what the current step has done so far: path taken, assistant text, and for a
\* finalize call its commit_message and the incomplete steps reported
Turn(path, step, content, cm, ids) ==
    [path |-> path, step |-> step, content |-> content, cm |-> cm, ids |-> ids]

(***************************************************************************)
(* Tool loop: one action per part of an iteration of run_tool_loop         *)
(***************************************************************************)
\* Lines 86-143: inject context, invoke the LLM, append and record its message,
\* and handle a turn without tool calls (continue / nudge / break)
LLMStep ==
    /\ pc = "llm"
    /\ \E o \in LLMOutcomes :
        LET content == IF o.error THEN "text" ELSE o.content
            calls   == NumberCalls(o.calls, step_index)
            ai      == IF o.error THEN Msg("ai", "error", ErrTextLen, "")
                       ELSE CallMsg("ai", IF calls # <<>> THEN "calls" ELSE "text",
                                    ContentLen(content), "",
                                    {calls[k].uid : k \in 1..Len(calls)})
            msgs1   == messages \o InjectedMessages(plan_json, cfg.has_artifacts_dir) \o <<ai>>
            ev1     == append_event(events,
                                    <<Ev("step_input", "", step_index + 1, "")>>
                                    \o ErrorEvents(o.error, step_index + 1)
                                    \o AssistantEvents(content, calls, step_index + 1),
                                    cfg.has_artifacts_dir, cfg.disk_fails)
        IN /\ trace' = [trace EXCEPT !.llm_calls = @ + 1, !.written = @ + ev1.written]
           /\ events' = ev1.sink
           /\ IF ev1.raised
              THEN /\ pc' = "crashed"
                   /\ UNCHANGED <<messages, tool_calls, step_index, turn>>
              ELSE IF calls # <<>>
              THEN /\ messages' = msgs1
                   /\ tool_calls' = calls
                   /\ pc' = "tools"
                   /\ step_index' = step_index
                   /\ turn' = Turn("calls", step_index + 1, content, NoneCm, {})
              ELSE IF HasText(content)
              THEN /\ messages' = msgs1
                   /\ pc' = AfterStep(step_index, cfg.max_steps)
                   /\ step_index' = step_index + 1
                   /\ turn' = Turn(IF o.error THEN "error" ELSE "text", step_index + 1, content, NoneCm, {})
                   /\ UNCHANGED tool_calls
              ELSE IF cfg.check_plan_completion /\ cfg.has_artifacts_dir
                      /\ check_plan_incomplete(plan_json)
              THEN /\ messages' = trim_messages(msgs1 \o <<Msg("human", "continue", ContinueLen, "")>>,
                                                cfg.keep_last_messages, cfg.max_history_chars)
                   /\ pc' = AfterStep(step_index, cfg.max_steps)
                   /\ step_index' = step_index + 1
                   /\ turn' = Turn("nudge", step_index + 1, content, NoneCm, {})
                   /\ UNCHANGED tool_calls
              ELSE /\ messages' = msgs1
                   /\ pc' = "returned"
                   /\ turn' = Turn("break", step_index + 1, content, NoneCm, {})
                   /\ UNCHANGED <<tool_calls, step_index>>
    /\ UNCHANGED <<plan_json, finalize_args, cfg>>

AfterAcceptGoesOn(stop_on_finalize) == "tools"

\* "if stop_on_finalize and finalize_args: return {...}", else the next call
AfterAccept(stop_on_finalize) == IF stop_on_finalize THEN "returned" ELSE "tools"

RejectionMessagesNoToolMessage(toolmsg, incomplete_steps) ==
    <<Msg("human", "nudge",
          NudgeLen + (IF incomplete_steps # {} THEN NudgeIdsLen ELSE 0), "")>>

\* what a rejected finalize appends: the ToolMessage answering the call, then the
\* nudge, which lists the incomplete step ids when there are any
RejectionMessages(toolmsg, incomplete_steps) ==
    <<toolmsg,
      Msg("human", "nudge",
          NudgeLen + (IF incomplete_steps # {} THEN NudgeIdsLen ELSE 0), "")>>

\* _handle_finalize_call and lines 150-165 of run_tool_loop
HandleFinalize ==
    /\ pc = "tools"
    /\ tool_calls # <<>>
    /\ Head(tool_calls).name = "finalize"
    /\ LET c == Head(tool_calls)
           v == validate_finalize_args(c.cm, plan_json, cfg.has_artifacts_dir,
                                       cfg.check_plan_completion)
           toolmsg == CallMsg("tool", "finalize", ArgsTextLen, c.id, {c.uid})
           ev == append_event(events,
                              <<Ev("tool", "finalize", c.uid,
                                   IF v.ok THEN "finalize" ELSE "rejected")>>,
                              cfg.has_artifacts_dir, cfg.disk_fails)
           note == append_note(IF v.ok THEN FinalizeNotes(c.cm) ELSE 0,
                               cfg.has_artifacts_dir, cfg.disk_fails)
       IN /\ events' = ev.sink
          /\ trace' = [trace EXCEPT !.written = @ + ev.written, !.notes = @ + note.written]
          /\ IF ev.raised \/ note.raised
             THEN /\ pc' = "crashed"
                  /\ UNCHANGED <<messages, finalize_args, tool_calls, turn>>
             ELSE IF ~v.ok
             THEN /\ messages' = messages \o RejectionMessages(toolmsg, v.incomplete_steps)
                  /\ finalize_args' = NoArgs
                  /\ tool_calls' = Tail(tool_calls)
                  /\ turn' = Turn("rejected", turn.step, turn.content, c.cm, v.incomplete_steps)
                  /\ pc' = "tools"
             ELSE /\ messages' = messages \o <<toolmsg>>
                  /\ finalize_args' = Args(c.cm)
                  /\ tool_calls' = Tail(tool_calls)
                  /\ turn' = Turn("accepted", turn.step, turn.content, c.cm, {})
                  /\ pc' = AfterAccept(cfg.stop_on_finalize)
    /\ UNCHANGED <<plan_json, step_index, cfg>>

\* the events _execute_tool appends for one invocation of a registered tool
ToolEventsNoneOnError(c) ==
    IF c.raises THEN <<>> ELSE <<Ev("tool", c.name, c.uid, "ok")>>

ToolEvents(c) ==
    <<Ev("tool", c.name, c.uid, IF c.raises THEN "error" ELSE "ok")>>

invoke_tool_unguarded(c) ==
    [len |-> IF c.name = "plan_update" THEN PlanResLen ELSE c.res_len,
     propagated |-> c.raises]

\* invoke_tool_safely: the length of the text returned for call c; an exception of
\* the tool becomes the text "Tool error: ..." and is not propagated
invoke_tool_safely(c) ==
    [len |-> IF c.raises THEN ToolErrLen
             ELSE IF c.name = "plan_update" THEN PlanResLen
             ELSE c.res_len,
     propagated |-> FALSE]

\* _execute_tool (with invoke_tool_safely): lookup, invoke, record, append
ExecuteTool ==
    /\ pc = "tools"
    /\ tool_calls # <<>>
    /\ Head(tool_calls).name # "finalize"
    /\ \E c \in {Head(tool_calls)} : \E r \in {invoke_tool_safely(c)} :
       \E ev \in {append_event(events, ToolEvents(c), cfg.has_artifacts_dir, cfg.disk_fails)} :
       \E note \in {append_note(ToolNotes(c), cfg.has_artifacts_dir, cfg.disk_fails)} :
          IF c.name \notin RegisteredTools
          THEN /\ messages' = messages \o <<CallMsg("tool", "unknown", UnknownLen, c.id, {c.uid})>>
               /\ UNCHANGED <<events, trace, plan_json, pc>>
          ELSE IF r.propagated
          THEN /\ pc' = "crashed"
               /\ trace' = [trace EXCEPT !.tools =
                                Append(@, [uid |-> c.uid, name |-> c.name,
                                           ev_ret |-> Len(events)])]
               /\ UNCHANGED <<events, messages, plan_json>>
          ELSE IF ev.raised \/ note.raised
          THEN /\ pc' = "crashed"
               /\ plan_json' = IF c.name = "plan_update" /\ ~c.raises /\ cfg.has_artifacts_dir
                               THEN plan_update(plan_json, c.upd) ELSE plan_json
               /\ trace' = [trace EXCEPT !.tools =
                                Append(@, [uid |-> c.uid, name |-> c.name,
                                           ev_ret |-> Len(events)])]
               /\ events' = ev.sink
               /\ UNCHANGED messages
          ELSE /\ plan_json' = IF c.name = "plan_update" /\ ~c.raises /\ cfg.has_artifacts_dir
                               THEN plan_update(plan_json, c.upd) ELSE plan_json
               /\ trace' = [trace EXCEPT !.tools =
                                Append(@, [uid |-> c.uid, name |-> c.name,
                                           ev_ret |-> Len(events)]),
                                          !.written = @ + ev.written,
                                          !.notes = @ + note.written]
               /\ events' = ev.sink
               /\ messages' = messages
                               \o (IF c.id # "" THEN <<CallMsg("ai", "echo", 0, c.id, {c.uid})>>
                                   ELSE <<>>)
                               \o <<CallMsg("tool", c.name,
                                            clip_text(r.len, cfg.max_tool_result_chars),
                                            IF c.id = "" THEN "call_synth" ELSE c.id,
                                            {c.uid})>>
               /\ UNCHANGED pc
    /\ tool_calls' = Tail(tool_calls)
    /\ turn' = Turn("calls", turn.step, turn.content, NoneCm, {})
    /\ UNCHANGED <<step_index, finalize_args, cfg>>

\* lines 174-186: remove the injected messages, trim, next iteration
EndStep ==
    /\ pc = "tools"
    /\ tool_calls = <<>>
    /\ messages' = trim_messages(remove_last_plan_message(remove_last_plan_message(messages)),
                                 cfg.keep_last_messages, cfg.max_history_chars)
    /\ pc' = AfterStep(step_index, cfg.max_steps)
    /\ step_index' = step_index + 1
    /\ turn' = Turn("tools", turn.step, turn.content, NoneCm, {})
    /\ UNCHANGED <<plan_json, tool_calls, finalize_args, events, trace, cfg>>

(***************************************************************************)
(* Workflow graph (graph.py) and its nodes (agents/*.py)                   *)
(***************************************************************************)
MaxLoops     == 2       \* largest max_loops tried
MaxCoderRuns == 3       \* runs of coder after which the model stops following the graph

\* plans the planner's LLM may return (the node adds completed = False when absent)
PlannerPlans ==
    {<<Step("a", NoStatus, FALSE)>>,
     <<Step("a", NoStatus, FALSE), Step("b", NoStatus, FALSE)>>,
     <<Step("a", NoStatus, TRUE)>>}

\* plan_update calls the coder's LLM may make during one run of the node
CoderPlanCalls ==
    {MarkAllCompleted,
     StepsCall(<<>>),
     StepsCall(<<Step("a", "completed", TRUE)>>),
     StepsCall(<<Step("a", NoStatus, TRUE), Step("b", NoStatus, TRUE)>>)}

\* all(bool(s.get("completed")) for s in steps), True for an empty list
all_complete(steps) == \A k \in 1..Len(steps) : steps[k].completed

\* (last_test.get("ok") is True or last_test == {}) and all_complete
SuccessGate(last_test, steps) == last_test \in {"ok", "none"} /\ all_complete(steps)

GState(max_loops, transcript, plan, last_test, done, commit, coder_runs, last) ==
    [max_loops |-> max_loops, transcript |-> transcript, plan |-> plan,
     last_test |-> last_test, done |-> done, commit_message |-> commit,
     coder_runs |-> coder_runs, last |-> last, finalize |-> "none", status |-> ""]

\* should_continue: the conditional edge after planner
should_continue(transcript, max_loops) == IF transcript >= max_loops THEN "END" ELSE "coder"

\* after_testlint: the conditional edge after test_lint
after_testlint(last_test, steps) == IF SuccessGate(last_test, steps) THEN "END" ELSE "coder"

AnalysisNode ==
    /\ node = "analysis"
    /\ node' = "setup"
    /\ gstate' = [gstate EXCEPT !.last = "analysis"]
    /\ UNCHANGED plan_json

SetupNode ==
    /\ node = "setup"
    /\ node' = "planner"
    /\ gstate' = [gstate EXCEPT !.last = "setup"]
    /\ UNCHANGED plan_json

\* planner_node, then should_continue
PlannerNode ==
    /\ node = "planner"
    /\ \E S \in PlannerPlans :
        LET to == should_continue(gstate.transcript, gstate.max_loops)
        IN /\ plan_json' = ValidPlan(S)
           /\ node' = to
           /\ gstate' = [gstate EXCEPT
                            !.plan = S,
                            !.last = "planner",
                            !.done = IF to = "END" THEN TRUE ELSE @,
                            !.commit_message = IF to = "END" THEN "dev-twin partial" ELSE @]

\* coder_node: one tool loop (plan gating on, stop_on_finalize), then the bookkeeping
\* of lines 149-223; fin is the finalize the loop accepted, if any
CoderNode ==
    /\ node = "coder"
    /\ gstate.coder_runs < MaxCoderRuns
    /\ \E upd \in CoderPlanCalls \cup {NoCall},
          fin \in {"none", "done_true", "done_false", "done_absent"},
          seen_test \in {"keep", "ok", "fail"} :
        LET disk  == IF upd.none THEN plan_json ELSE plan_update(plan_json, upd)
            steps == ExistingSteps(disk)
            done  == fin = "done_true" /\ ~(steps # <<>> /\ ~all_complete(steps))
        IN /\ fin # "none" => validate_finalize_args("fix", disk, TRUE, TRUE).ok
           /\ plan_json' = disk
           /\ gstate' = [gstate EXCEPT
                            !.plan = steps,
                            !.done = done,
                            !.commit_message = IF fin = "none" THEN "dev-twin changes" ELSE "fix",
                            !.transcript = @ + 1,
                            !.last_test = IF seen_test = "keep" THEN @ ELSE seen_test,
                            !.coder_runs = @ + 1,
                            !.finalize = fin,
                            !.last = "coder"]
           /\ node' = "test_lint"

\* test_lint_node, then after_testlint; r is the outcome of the test commands
\* ("none": no command was run, "unknown": the exit code could not be parsed)
TestLintNode ==
    /\ node = "test_lint"
    /\ \E r \in {"none", "ok", "fail", "unknown"} :
        LET steps == ExistingSteps(plan_json)
        IN /\ gstate' = [gstate EXCEPT
                            !.last_test = r,
                            !.plan = steps,
                            !.done = IF SuccessGate(r, steps) THEN TRUE ELSE @,
                            !.last = "test_lint"]
           /\ node' = after_testlint(r, steps)
    /\ UNCHANGED plan_json

\* bool(finalize_args.get("done", False)) on the args of the accepted call, {} when
\* no finalize was accepted
DoneOf(fin) == fin = "done_true"

\* unified_agent_run: one tool loop (plan gating on, stop_on_finalize), then lines
\* 170-204; fin is the finalize the loop accepted, if any
UnifiedRun ==
    /\ node = "unified"
    /\ \E upd \in CoderPlanCalls \cup {NoCall},
          fin \in {"none", "done_true", "done_false", "done_absent"},
          seen_test \in {"keep", "ok", "fail"} :
        LET disk == IF upd.none THEN plan_json ELSE plan_update(plan_json, upd)
        IN /\ fin # "none" => validate_finalize_args("fix", disk, TRUE, TRUE).ok
           /\ plan_json' = disk
           /\ gstate' = [gstate EXCEPT
                            !.plan = ExistingSteps(disk),
                            !.done = DoneOf(fin),
                            !.commit_message = IF fin = "none" THEN "dev-twin unified changes"
                                               ELSE "fix",
                            !.transcript = @ + 1,
                            !.last_test = IF seen_test = "keep" THEN @ ELSE seen_test,
                            !.finalize = fin,
                            !.last = "unified"]
           /\ node' = "summary"

\* the summary the drivers write after the run: "success" if iteration.done
RunSummary ==
    /\ node = "summary"
    /\ gstate' = [gstate EXCEPT !.status = IF gstate.done THEN "success" ELSE "incomplete",
                                !.last = "summary"]
    /\ node' = "END"
    /\ UNCHANGED plan_json

(***************************************************************************)
(* Patch engine (tools/patch_apply.py): lines, tokens, context search      *)
(***************************************************************************)
\* Lines are strings; "x " and " x" are "x" with trailing / leading whitespace,
\* "Y" is "y" written with a Unicode punctuation variant (same canonical form).
_canon_punct(l) == IF l = "Y" THEN "y" ELSE l
RStrip(l) == IF l = "x " THEN "x" ELSE l
StripWs(l) ==
    IF l \in {"x ", " x"} THEN "x"
    ELSE IF l = "    return  1" THEN "return  1"
    ELSE IF l = "    return 1" THEN "return 1"
    ELSE IF l = "    return 2" THEN "return 2"
    ELSE l

CanonR(l) == _canon_punct(RStrip(l))
CanonS(l) == _canon_punct(StripWs(l))
\* canon("\n".join(ls)), and the same after rstrip() / strip() of every line
CanonLines(ls)  == [k \in 1..Len(ls) |-> _canon_punct(ls[k])]
CanonRLines(ls) == [k \in 1..Len(ls) |-> CanonR(ls[k])]
CanonSLines(ls) == [k \in 1..Len(ls) |-> CanonS(ls[k])]

\* A line of the patch text
Tok(k, p, m, t) == [k |-> k, p |-> p, m |-> m, t |-> t]
BeginTok      == Tok("begin", "", "", "")
EndTok        == Tok("end", "", "", "")
UpdateTok(p)  == Tok("update", p, "", "")
DeleteTok(p)  == Tok("delete", p, "", "")
AddTok(p)     == Tok("add", p, "", "")
BareAnchorTok == Tok("bare", "", "", "")              \* "@@"
AnchorTok(d)  == Tok("anchor", d, "", "")             \* "@@ d"
EofTok        == Tok("eof", "", "", "")               \* "*** End of File"
HunkTok(m, t) == Tok("hunk", "", m, t)                \* "+t", "-t", " t"

\* lines[i : i + n] (0-based i), shorter near the end of the file
Segment(lines, i, n) == SubSeq(lines, i + 1, Min(i + n, Len(lines)))

\* the first index a scan stops at, among the indices ok that satisfy its test, or -1
FirstIndex(ok) ==
    IF ok = {} THEN -1 ELSE CHOOSE i \in ok : \A j \in ok : i <= j

Found(i, fuzz) == [index |-> i, fuzz |-> fuzz]

FirstPassStripFirst(p1, p2, p3, p4) ==
    IF p1 # -1 THEN Found(p1, 0)
    ELSE IF p3 # -1 THEN Found(p3, 100)
    ELSE IF p2 # -1 THEN Found(p2, 1)
    ELSE IF p4 # -1 THEN Found(p4, 200)
    ELSE Found(-1, 0)

\* the result of the first pass that found a position, (index, fuzz) or (-1, 0)
FirstPass(p1, p2, p3, p4) ==
    IF p1 # -1 THEN Found(p1, 0)
    ELSE IF p2 # -1 THEN Found(p2, 1)
    ELSE IF p3 # -1 THEN Found(p3, 100)
    ELSE IF p4 # -1 THEN Found(p4, 200)
    ELSE Found(-1, 0)

\* _find_context_core: the four passes over lines[start:]
_find_context_core(lines, context, start) ==
    IF Len(context) = 0 THEN Found(start, 0)
    ELSE FirstPass(
             FirstIndex({i \in start..(Len(lines) - 1) :
                 CanonLines(Segment(lines, i, Len(context))) = CanonLines(context)}),
             FirstIndex({i \in start..(Len(lines) - 1) :
                 CanonRLines(Segment(lines, i, Len(context))) = CanonRLines(context)}),
             FirstIndex({i \in start..(Len(lines) - 1) :
                 CanonSLines(Segment(lines, i, Len(context))) = CanonSLines(context)}),
             IF Len(context) >= 2
             THEN FirstIndex({i \in Max(start, 0)..(Len(lines) - Len(context)) :
                      /\ _canon_punct(lines[i + 1]) = _canon_punct(context[1])
                      /\ _canon_punct(lines[i + Len(context)])
                           = _canon_punct(context[Len(context)])})
             ELSE -1)

\* the EOF branch of _find_context: the tail search, else the fallback with +10000
EofFound(r1, lines, context, start) ==
    IF r1.index # -1 THEN r1
    ELSE [_find_context_core(lines, context, start) EXCEPT !.fuzz = @ + 10000]

\* _find_context: an EOF-anchored hunk is first looked for at the tail of the file
_find_context(lines, context, start, eof) ==
    IF eof
    THEN EofFound(_find_context_core(lines, context, Max(0, Len(lines) - Len(context))),
                  lines, context, start)
    ELSE _find_context_core(lines, context, start)

(***************************************************************************)
(* Patch engine: parsing one section of an Update block                    *)
(***************************************************************************)
Chunk(orig_index, del_lines, ins_lines) ==
    [orig_index |-> orig_index, del_lines |-> del_lines, ins_lines |-> ins_lines]

\* index of the first token at or after i (1-based) that is not a hunk line
RECURSIVE HunkEnd(_, _)
HunkEnd(lines, i) ==
    IF i > Len(lines) \/ lines[i].k # "hunk" THEN i ELSE HunkEnd(lines, i + 1)

PeekState(mode, old, del, ins, chunks) ==
    [mode |-> mode, old |-> old, del |-> del, ins |-> ins, chunks |-> chunks]

\* the chunk list after "if ins_lines or del_lines: chunks.append(...)"
FlushChunk(st) ==
    IF st.ins # <<>> \/ st.del # <<>>
    THEN Append(st.chunks, Chunk(Len(st.old) - Len(st.del), st.del, st.ins))
    ELSE st.chunks

\* one pass of the loop body of _peek_next_section on a hunk line of mode m
PeekLine(st, mode, line) ==
    IF mode = "keep"
    THEN PeekState("keep", Append(st.old, line), <<>>, <<>>,
                   IF st.mode # "keep" THEN FlushChunk(st) ELSE st.chunks)
    ELSE IF mode = "delete"
    THEN PeekState("delete", Append(st.old, line), Append(st.del, line), st.ins, st.chunks)
    ELSE PeekState("add", st.old, st.del, Append(st.ins, line), st.chunks)

HunkMode(m) == IF m = "+" THEN "add" ELSE IF m = "-" THEN "delete" ELSE "keep"

\* the loop of _peek_next_section over the hunk lines i..j-1
RECURSIVE PeekFold(_, _, _, _)
PeekFold(lines, i, j, st) ==
    IF i >= j THEN st
    ELSE PeekFold(lines, i + 1, j, PeekLine(st, HunkMode(lines[i].m), lines[i].t))

\* what _peek_next_section returns once its loop stopped at line j in state st
PeekResult(lines, j, st) ==
    [err |-> (j <= Len(lines) /\ lines[j].k \in {"junk", "begin"}),
     old |-> st.old, chunks |-> FlushChunk(st),
     index |-> IF j <= Len(lines) /\ lines[j].k = "eof" THEN j + 1 ELSE j,
     eof |-> (j <= Len(lines) /\ lines[j].k = "eof")]

\* the scan of _peek_next_section from line i up to line j
PeekUpTo(lines, i, j) ==
    PeekResult(lines, j, PeekFold(lines, i, j, PeekState("keep", <<>>, <<>>, <<>>, <<>>)))

\* _peek_next_section from token i: [err, old, chunks, index, eof]
_peek_next_section(lines, i) == PeekUpTo(lines, i, HunkEnd(lines, i))

(***************************************************************************)
(* Patch engine: Parser, commit, process_patch, the apply_patch tool       *)
(***************************************************************************)
\* A file's text is held as text.split("\n"); the empty text is <<"">>.
JoinLines(ls) == IF ls = <<>> THEN <<"">> ELSE ls
NoFile == [exists |-> FALSE, lines |-> <<>>]
File(ls) == [exists |-> TRUE, lines |-> ls]

Section(at, ctx, new_len) == [at |-> at, ctx |-> ctx, new_len |-> new_len]
PatchAction(path, type, new_file, chunks, sections) ==
    [path |-> path, type |-> type, new_file |-> new_file, chunks |-> chunks,
     sections |-> sections]
Parsed(err, index, chunks, fuzz, sections) ==
    [err |-> err, index |-> index, chunks |-> chunks, fuzz |-> fuzz, sections |-> sections]

\* the two scans of the "@@ def" alignment, given the indices i1, i2 they stop at
AlignAt(i1, i2, index_in_file) ==
    IF i1 # -1 THEN [index_in_file |-> i1 + 1, fuzz |-> 0]
    ELSE IF i2 # -1 THEN [index_in_file |-> i2 + 1, fuzz |-> 1]
    ELSE [index_in_file |-> index_in_file, fuzz |-> 0]

\* def_str is among file_lines[:index_in_file], canonicalised by canon
SeenBefore(canon_lines, canon_def, index_in_file) ==
    \E k \in 1..Min(index_in_file, Len(canon_lines)) : canon_lines[k] = canon_def

\* the "@@ def" alignment of _parse_update_file: [index_in_file, fuzz]
AnchorAlign(file_lines, def_str, index_in_file) ==
    AlignAt(
        IF SeenBefore(CanonLines(file_lines), _canon_punct(def_str), index_in_file) THEN -1
        ELSE FirstIndex({i \in index_in_file..(Len(file_lines) - 1) :
                 _canon_punct(file_lines[i + 1]) = _canon_punct(def_str)}),
        IF SeenBefore(CanonSLines(file_lines), CanonS(def_str), index_in_file) THEN -1
        ELSE FirstIndex({i \in index_in_file..(Len(file_lines) - 1) :
                 CanonS(file_lines[i + 1]) = CanonS(def_str)}),
        index_in_file)

ShiftChunks(chunks, by) ==
    [k \in 1..Len(chunks) |-> [chunks[k] EXCEPT !.orig_index = @ + by]]

RECURSIVE InsTotal(_)
InsTotal(chunks) ==
    IF chunks = <<>> THEN 0 ELSE Len(Head(chunks).ins_lines) + InsTotal(Tail(chunks))
RECURSIVE DelTotal(_)
DelTotal(chunks) ==
    IF chunks = <<>> THEN 0 ELSE Len(Head(chunks).del_lines) + DelTotal(Tail(chunks))

\* the state of the loop of _parse_update_file after a section sec found at r
SectionDone(acc, sec, r, al) ==
    Parsed("", sec.index,
           acc.chunks \o ShiftChunks(sec.chunks, r.index),
           acc.fuzz + al.fuzz + r.fuzz,
           Append(acc.sections,
                  Section(r.index, sec.old,
                          Len(sec.old) - DelTotal(sec.chunks) + InsTotal(sec.chunks))))

\* Parser._parse_update_file: the loop over the sections of one Update block
RECURSIVE _parse_update_file(_, _, _, _, _)
RECURSIVE ParseSection(_, _, _, _, _, _, _, _)
RECURSIVE ParsePeeked(_, _, _, _, _)
RECURSIVE ParseLocated(_, _, _, _, _, _)

ParseLocated(lines, file_lines, acc, al, sec, r) ==
    IF r.index = -1
    THEN [acc EXCEPT !.err = IF sec.eof THEN "Invalid EOF Context" ELSE "Invalid Context"]
    ELSE _parse_update_file(lines, sec.index, file_lines, r.index + Len(sec.old),
                            SectionDone(acc, sec, r, al))

ParsePeeked(lines, file_lines, acc, al, sec) ==
    IF sec.err THEN [acc EXCEPT !.err = "Invalid Line"]
    ELSE ParseLocated(lines, file_lines, acc, al, sec,
                      _find_context(file_lines, sec.old, al.index_in_file, sec.eof))

\* one pass of the loop: anchored tells that a "@@ def" or "@@" line was read
ParseSection(lines, index, index1, file_lines, index_in_file, acc, anchored, al) ==
    IF ~(anchored \/ index_in_file = 0)
    THEN [acc EXCEPT !.err = "Invalid Line", !.index = index]
    ELSE ParsePeeked(lines, file_lines, [acc EXCEPT !.index = index1], al,
                     _peek_next_section(lines, index1))

_parse_update_file(lines, index, file_lines, index_in_file, acc) ==
    IF index > Len(lines) \/ lines[index].k \in {"end", "update", "delete", "add", "eof"}
    THEN [acc EXCEPT !.index = index]
    ELSE IF lines[index].k = "anchor"
    THEN ParseSection(lines, index, index + 1, file_lines, index_in_file, acc, TRUE,
                      AnchorAlign(file_lines, lines[index].p, index_in_file))
    ELSE ParseSection(lines, index, IF lines[index].k = "bare" THEN index + 1 ELSE index,
                      file_lines, index_in_file, acc, lines[index].k = "bare",
                      [index_in_file |-> index_in_file, fuzz |-> 0])

\* Parser._parse_add_file: every line up to the next block must be a "+" line
RECURSIVE _parse_add_file(_, _, _)
_parse_add_file(lines, index, acc) ==
    IF index > Len(lines) \/ lines[index].k \in {"end", "update", "delete", "add"}
    THEN [err |-> "", index |-> index, new_file |-> JoinLines(acc)]
    ELSE IF lines[index].k = "hunk" /\ lines[index].m = "+"
    THEN _parse_add_file(lines, index + 1, Append(acc, lines[index].t))
    ELSE [err |-> "Invalid Add File Line", index |-> index, new_file |-> <<>>]

HasAction(actions, path) == \E k \in 1..Len(actions) : actions[k].path = path

ParseFail(msg, actions, fuzz) == [err |-> msg, actions |-> actions, fuzz |-> fuzz]

\* Parser.parse: [err, actions, fuzz]; current_files is the set of loaded paths
RECURSIVE ParserParse(_, _, _, _, _, _)
RECURSIVE AfterUpdate(_, _, _, _, _, _, _)
RECURSIVE AfterAdd(_, _, _, _, _, _, _)

AfterUpdate(lines, path, u, current_files, tr, actions, fuzz) ==
    IF u.err # "" THEN ParseFail(u.err, actions, fuzz)
    ELSE ParserParse(lines, u.index, current_files, tr,
             Append(actions, PatchAction(path, "update", <<>>, u.chunks, u.sections)),
             fuzz + u.fuzz)

AfterAdd(lines, path, a, current_files, tr, actions, fuzz) ==
    IF a.err # "" THEN ParseFail(a.err, actions, fuzz)
    ELSE ParserParse(lines, a.index, current_files, tr,
             Append(actions, PatchAction(path, "add", a.new_file, <<>>, <<>>)), fuzz)

ParserParse(lines, index, current_files, tr, actions, fuzz) ==
    IF index > Len(lines) THEN ParseFail("Index out of range", actions, fuzz)
    ELSE IF lines[index].k = "end" THEN ParseFail("", actions, fuzz)
    ELSE IF lines[index].k = "update" THEN
        IF HasAction(actions, lines[index].p) THEN ParseFail("Duplicate Path", actions, fuzz)
        ELSE IF lines[index].p \notin current_files
        THEN ParseFail("Missing File", actions, fuzz)
        ELSE AfterUpdate(lines, lines[index].p,
                 _parse_update_file(lines, index + 1, tr[lines[index].p].lines, 0,
                                    Parsed("", index + 1, <<>>, 0, <<>>)),
                 current_files, tr, actions, fuzz)
    ELSE IF lines[index].k = "delete" THEN
        IF HasAction(actions, lines[index].p) THEN ParseFail("Duplicate Path", actions, fuzz)
        ELSE IF lines[index].p \notin current_files
        THEN ParseFail("Missing File", actions, fuzz)
        ELSE ParserParse(lines, index + 1, current_files, tr,
                 Append(actions, PatchAction(lines[index].p, "delete", <<>>, <<>>, <<>>)),
                 fuzz)
    ELSE IF lines[index].k = "add" THEN
        IF HasAction(actions, lines[index].p) THEN ParseFail("Duplicate Path", actions, fuzz)
        ELSE IF lines[index].p \in current_files
        THEN ParseFail("File already exists", actions, fuzz)
        ELSE AfterAdd(lines, lines[index].p, _parse_add_file(lines, index + 1, <<>>),
                      current_files, tr, actions, fuzz)
    ELSE ParseFail("Unknown Line", actions, fuzz)

\* text_to_patch: the envelope check, then the parser from the second line
text_to_patch(lines, current_files, tr) ==
    IF Len(lines) < 2 \/ lines[1].k # "begin" \/ lines[Len(lines)].k # "end"
    THEN [err |-> "Invalid patch text", actions |-> <<>>, fuzz |-> 0]
    ELSE ParserParse(lines, 2, current_files, tr, <<>>, 0)

identify_files_needed(lines) ==
    {lines[k].p : k \in {j \in 1..Len(lines) : lines[j].k \in {"update", "delete"}}}

\* _get_updated_file: [err, lines]; the loop over the chunks of one action
RECURSIVE UpdatedFold(_, _, _, _, _)
UpdatedFold(orig_lines, chunks, k, orig_index, dest_lines) ==
    IF k > Len(chunks)
    THEN [err |-> "", lines |-> dest_lines \o SubSeq(orig_lines, orig_index + 1, Len(orig_lines))]
    ELSE IF chunks[k].orig_index > Len(orig_lines) \/ orig_index > chunks[k].orig_index
    THEN [err |-> "chunk index", lines |-> <<>>]
    ELSE UpdatedFold(orig_lines, chunks, k + 1,
             chunks[k].orig_index + Len(chunks[k].del_lines),
             dest_lines \o SubSeq(orig_lines, orig_index + 1, chunks[k].orig_index)
                        \o chunks[k].ins_lines)

_get_updated_file(orig_lines, chunks) == UpdatedFold(orig_lines, chunks, 1, 0, <<>>)

Change(path, type, new_content) ==
    [path |-> path, type |-> type, new_content |-> new_content]

\* patch_to_commit: [err, changes], one change per action in the order parsed
RECURSIVE patch_to_commit(_, _, _, _)
RECURSIVE CommitUpdate(_, _, _, _, _)

CommitUpdate(actions, k, tr, changes, u) ==
    IF u.err # "" THEN [err |-> u.err, changes |-> <<>>]
    ELSE patch_to_commit(actions, k + 1, tr,
             Append(changes, Change(actions[k].path, "update", JoinLines(u.lines))))

patch_to_commit(actions, k, tr, changes) ==
    IF k > Len(actions) THEN [err |-> "", changes |-> changes]
    ELSE IF actions[k].type = "update"
    THEN CommitUpdate(actions, k, tr, changes,
             _get_updated_file(tr[actions[k].path].lines, actions[k].chunks))
    ELSE patch_to_commit(actions, k + 1, tr,
             Append(changes, Change(actions[k].path, actions[k].type, actions[k].new_file)))

\* paths outside the repository root: absolute ones, and relative ones whose
\* resolved location is not under the root
AbsolutePaths == {"/o"}
EscapingPaths == {"../o"}

_assert_rel_absolute_only(p) ==
    IF p \in AbsolutePaths THEN "We do not support absolute paths." ELSE ""

\* _assert_rel of process_patch_in_repo: the DiffError raised for path p, "" for none
_assert_rel(p) ==
    IF p \in AbsolutePaths THEN "We do not support absolute paths."
    ELSE IF p \in EscapingPaths THEN "Path escapes repository root."
    ELSE ""

\* apply_commit: the changes are written or removed one after the other through
\* _write and _remove, which raise for a path outside the root: [err, tree]
RECURSIVE apply_commit(_, _, _)
apply_commit(changes, k, tr) ==
    IF k > Len(changes) THEN [err |-> "", tree |-> tr]
    ELSE IF _assert_rel(changes[k].path) # ""
    THEN [err |-> _assert_rel(changes[k].path), tree |-> tr]
    ELSE apply_commit(changes, k + 1,
             [tr EXCEPT ![changes[k].path] =
                 IF changes[k].type = "delete" THEN NoFile
                 ELSE File(changes[k].new_content)])

PatchResult(res, err, tr, parsed) == [res |-> res, err |-> err, tree |-> tr, parsed |-> parsed]
NoParse == [err |-> "", actions |-> <<>>, fuzz |-> 0]

\* the return of process_patch after apply_commit
Applied(a, parsed) ==
    IF a.err # "" THEN PatchResult("DiffError", a.err, a.tree, parsed)
    ELSE PatchResult("Done!", "", a.tree, parsed)

\* the end of process_patch: apply_commit when patch_to_commit raised nothing
Committed(commit, parsed, tr) ==
    IF commit.err # "" THEN PatchResult("DiffError", commit.err, tr, parsed)
    ELSE Applied(apply_commit(commit.changes, 1, tr), parsed)

ParsedPatchPartial(parsed, tr) ==
    IF parsed.err # ""
    THEN PatchResult("DiffError", parsed.err,
                     Committed(patch_to_commit(parsed.actions, 1, tr, <<>>), parsed, tr).tree,
                     parsed)
    ELSE Committed(patch_to_commit(parsed.actions, 1, tr, <<>>), parsed, tr)

\* process_patch after text_to_patch: a parse error raises before anything is written
ParsedPatch(parsed, tr) ==
    IF parsed.err # "" THEN PatchResult("DiffError", parsed.err, tr, parsed)
    ELSE Committed(patch_to_commit(parsed.actions, 1, tr, <<>>), parsed, tr)

\* process_patch / process_patch_in_repo: "Done!" or a DiffError, and the tree left
process_patch(lines, tr) ==
    IF Len(lines) = 0 \/ lines[1].k # "begin"
    THEN PatchResult("DiffError", "Patch must start with *** Begin Patch", tr, NoParse)
    ELSE IF \E p \in identify_files_needed(lines) : _assert_rel(p) # "" \/ ~tr[p].exists
    THEN PatchResult("DiffError", "File not found", tr, NoParse)
    ELSE ParsedPatch(text_to_patch(lines, identify_files_needed(lines), tr), tr)

\* the except clause of apply_patch: a DiffError becomes "ERROR: Patch format error: ..."
FormatError(r) ==
    IF r.res = "Done!" THEN r
    ELSE PatchResult("ERROR: Patch format error", r.err, r.tree, r.parsed)

UpdateOrAddPaths(lines) ==
    {lines[k].p : k \in {j \in 1..Len(lines) : lines[j].k \in {"update", "add"}}}
UpdatePaths(lines) ==
    {lines[k].p : k \in {j \in 1..Len(lines) : lines[j].k = "update"}}

\* the apply_patch tool: pre-checks, then the engine
apply_patch(lines, tr) ==
    IF Len(lines) = 0 \/ lines[1].k # "begin"
    THEN PatchResult("ERROR: Patch must start with", "", tr, NoParse)
    ELSE IF UpdateOrAddPaths(lines) = {}
    THEN PatchResult("ERROR: No files found in patch", "", tr, NoParse)
    ELSE IF \E p \in UpdateOrAddPaths(lines) : p \in UpdatePaths(lines) /\ ~tr[p].exists
    THEN PatchResult("ERROR: File not found", "", tr, NoParse)
    ELSE FormatError(process_patch(lines, tr))

(***************************************************************************)
(* Patch engine: inputs, the inverse patch, actions                        *)
(***************************************************************************)
MaxFileLen == 2
MaxHunkLen == 2
Paths == {"f", "g"}
FileLineSet == {"x", "x ", " x", "Y"}
HunkLineSet == {"x", "y"}
HunkToks == {HunkTok(m, t) : m \in {"+", "-", " "}, t \in HunkLineSet}
Files == {File(ls) : ls \in SeqsUpTo(FileLineSet, MaxFileLen) \ {<<>>}}
Hunks == SeqsUpTo(HunkToks, MaxHunkLen) \ {<<>>}
Envelope(body) == <<BeginTok>> \o body \o <<EndTok>>
Tree(f, g) == [p \in Paths |-> IF p = "f" THEN f ELSE g]
PatchInput(tr, patch) == [tree |-> tr, patch |-> patch]
OtherFile == File(<<"y">>)
OtherHunk == <<HunkTok("-", "y"), HunkTok("+", "z")>>

\* one Update of f by a drawn hunk, alone or next to another action of the patch
UpdateShapes == 1..7
UpdateInput(shape, f, h) ==
    IF shape = 1 THEN PatchInput(Tree(f, NoFile), Envelope(<<UpdateTok("f")>> \o h))
    ELSE IF shape = 2
    THEN PatchInput(Tree(f, NoFile), Envelope(<<UpdateTok("f")>> \o h \o <<EofTok>>))
    ELSE IF shape = 3
    THEN PatchInput(Tree(f, NoFile), Envelope(<<UpdateTok("f"), AnchorTok("x")>> \o h))
    ELSE IF shape = 4
    THEN PatchInput(Tree(f, NoFile),
                    Envelope(<<UpdateTok("f")>> \o h \o <<BareAnchorTok>> \o OtherHunk))
    ELSE IF shape = 5
    THEN PatchInput(Tree(f, NoFile),
                    Envelope(<<AddTok("g"), HunkTok("+", "z"), UpdateTok("f")>> \o h))
    ELSE IF shape = 6
    THEN PatchInput(Tree(f, OtherFile),
                    Envelope(<<UpdateTok("f")>> \o h \o <<DeleteTok("g")>>))
    ELSE PatchInput(Tree(f, OtherFile),
                    Envelope(<<UpdateTok("g")>> \o OtherHunk \o <<UpdateTok("f")>> \o h))

\* patches without a drawn hunk: add only, delete only, missing target, bad lines
FixedInputs ==
    { PatchInput(Tree(File(<<"x">>), NoFile), Envelope(<<AddTok("g"), HunkTok("+", "z")>>)),
      PatchInput(Tree(File(<<"x">>), OtherFile), Envelope(<<AddTok("g"), HunkTok("+", "z")>>)),
      PatchInput(Tree(File(<<"x">>), OtherFile), Envelope(<<DeleteTok("g")>>)),
      PatchInput(Tree(NoFile, OtherFile), Envelope(<<UpdateTok("f")>> \o OtherHunk)),
      PatchInput(Tree(File(<<"x">>), NoFile),
                 Envelope(<<AddTok("g"), HunkTok("+", "z"), DeleteTok("f"), UpdateTok("f")>>
                          \o OtherHunk)),
      PatchInput(Tree(File(<<"x">>), NoFile),
                 Envelope(<<AddTok("g"), HunkTok(" ", "z")>>)),
      PatchInput(Tree(File(<<"y">>), NoFile),
                 Envelope(<<UpdateTok("f")>> \o OtherHunk \o <<Tok("junk", "", "", "")>>)),
      PatchInput(Tree(File(<<"y">>), NoFile),
                 <<UpdateTok("f")>> \o OtherHunk \o <<EndTok>>) }

\* an Update whose hunk has "    return 1" where the file has "    return  1":
\* the line alone, after an exact context line, and between two exact ones
DriftHunk == <<HunkTok("-", "    return 1"), HunkTok("+", "    return 2")>>
DriftInputs ==
    { PatchInput(Tree(File(<<"    return  1">>), NoFile),
                 Envelope(<<UpdateTok("f")>> \o DriftHunk)),
      PatchInput(Tree(File(<<"def foo():", "    return  1">>), NoFile),
                 Envelope(<<UpdateTok("f"), HunkTok(" ", "def foo():")>> \o DriftHunk)),
      PatchInput(Tree(File(<<"def foo():", "    return  1", "x">>), NoFile),
                 Envelope(<<UpdateTok("f"), HunkTok(" ", "def foo():")>> \o DriftHunk
                          \o <<HunkTok(" ", "x")>>)) }

\* the inverse of a patch: "+" and "-" swapped, Add and Delete swapped; the
\* Add that undoes a Delete carries the lines the file had
RECURSIVE Inverse(_, _, _, _)
Inverse(lines, k, tr, in_add) ==
    IF k > Len(lines) THEN <<>>
    ELSE LET t == lines[k]
         IN IF t.k = "add"
            THEN <<DeleteTok(t.p)>> \o Inverse(lines, k + 1, tr, TRUE)
            ELSE IF t.k = "delete"
            THEN <<AddTok(t.p)>>
                 \o [j \in 1..Len(tr[t.p].lines) |-> HunkTok("+", tr[t.p].lines[j])]
                 \o Inverse(lines, k + 1, tr, FALSE)
            ELSE IF t.k = "hunk"
            THEN (IF in_add THEN <<>>
                  ELSE <<HunkTok(IF t.m = "+" THEN "-" ELSE IF t.m = "-" THEN "+" ELSE t.m,
                                 t.t)>>)
                 \o Inverse(lines, k + 1, tr, in_add)
            ELSE <<t>> \o Inverse(lines, k + 1, tr, FALSE)

\* no path-taking tool has been called
NoToolOut ==
    [tool |-> "", arg |-> {}, res |-> "", err |-> "", read |-> {}, listed |-> {}, before |-> <<>>]

NoOut == [phase |-> "new", res |-> "", err |-> "", parsed |-> NoParse,
          orig |-> <<>>, mid |-> <<>>, res2 |-> "", inv |-> NoParse]

\* The agent calls apply_patch(patch_text) on the working tree
ApplyPatch ==
    /\ patch_out.phase = "new"
    /\ \E r \in {apply_patch(patch_text, tree)} :
          /\ tree' = r.tree
          /\ patch_out' = [NoOut EXCEPT !.phase = "applied", !.res = r.res, !.err = r.err,
                                        !.parsed = r.parsed, !.orig = tree, !.mid = r.tree]
    /\ UNCHANGED <<patch_text, tool_out, proc, planVars, loopVars, graphVars>>

\* After a clean application the inverse patch is run through process_patch
ProcessInverse ==
    /\ patch_out.phase = "applied"
    /\ patch_out.res = "Done!"
    /\ \E r \in {process_patch(Inverse(patch_text, 1, patch_out.orig, FALSE), tree)} :
          /\ tree' = r.tree
          /\ patch_out' = [patch_out EXCEPT !.phase = "inverted", !.res2 = r.res,
                                            !.inv = r.parsed]
    /\ UNCHANGED <<patch_text, tool_out, proc, planVars, loopVars, graphVars>>

(***************************************************************************)
(* Shell tool (tools/lc_tools.py make_shell_tool, tools/shell.py)          *)
(***************************************************************************)
MaxOutput == 2              \* lines the child writes to each of stdout and stderr
DefaultShellTimeout == 60   \* default_shell_timeout
MaxShellTimeout == 600      \* max_shell_timeout

\* the timeout argument: missing, a value int() raises on, below 1, in range, above
\* the cap
TimeoutArg(kind, n) == [kind |-> kind, n |-> n]
TimeoutArgs ==
    {TimeoutArg("none", 0), TimeoutArg("bad", 0)}
        \cup {TimeoutArg("int", n) : n \in {0, 5, MaxShellTimeout + 1}}

EffectiveTimeoutNoFloor(t) ==
    IF t.kind \in {"none", "bad"} THEN DefaultShellTimeout
    ELSE Min(t.n, MaxShellTimeout)

\* timeout = max(1, min(int(timeout), max_timeout)), the default when missing or bad
EffectiveTimeout(t) ==
    IF t.kind \in {"none", "bad"} THEN DefaultShellTimeout
    ELSE Max(1, Min(t.n, MaxShellTimeout))

\* the text after "[exit code]\n": where it comes from, its lines, the marker
ShellText(from, lines, marker) == [from |-> from, lines |-> lines, marker |-> marker]

\* run_shell and the return of shell: stderr gets the marker after a kill, and
\* the text is "out or err"
OutOrErr(out, err, killed) ==
    IF out > 0 THEN ShellText("stdout", out, FALSE) ELSE ShellText("stderr", err, killed)

\* run_shell_stream: stdout and stderr are one pipe, the marker is appended to it
Combined(out, err, killed) == ShellText("combined", out + err, killed)

Returned(stream, out, err, killed) ==
    IF stream THEN Combined(out, err, killed) ELSE OutOrErr(out, err, killed)

NoProc == [phase |-> "idle", stream |-> FALSE, docker |-> FALSE, timeout |-> 0,
           arg |-> TimeoutArg("none", 0),
           late |-> FALSE, out |-> 0, err |-> 0, killed |-> FALSE, code |-> "",
           text |-> ShellText("", 0, FALSE)]

\* shell(command, timeout, stdin, stream): the child is started, in the container
\* through "docker exec" when there is one
ShellCall ==
    /\ proc.phase = "idle"
    /\ \E stream \in BOOLEAN, docker \in BOOLEAN, t \in TimeoutArgs :
          proc' = [NoProc EXCEPT !.phase = "running", !.stream = stream, !.docker = docker,
                                 !.timeout = EffectiveTimeout(t), !.arg = t]

\* the child writes a line; run_shell_stream reads it, and after a line read past
\* the deadline it kills the child, appends the marker and returns
ProcWrite ==
    /\ proc.phase = "running"
    /\ \E fd \in {"out", "err"} :
          /\ proc[fd] < MaxOutput
          /\ \E w \in {[proc EXCEPT ![fd] = @ + 1]} :
                proc' = IF proc.stream /\ proc.late
                        THEN [w EXCEPT !.phase = "returned", !.killed = TRUE, !.code = "signal",
                                       !.text = Returned(TRUE, w.out, w.err, TRUE)]
                        ELSE w

\* the timeout passes: communicate raises TimeoutExpired and run_shell kills the
\* process tree; run_shell_stream is blocked in readline and notices nothing yet
Deadline ==
    /\ proc.phase = "running" /\ ~proc.late
    /\ proc' = IF proc.stream THEN [proc EXCEPT !.late = TRUE]
               ELSE [proc EXCEPT !.phase = "returned", !.late = TRUE, !.killed = TRUE,
                                 !.code = "signal",
                                 !.text = Returned(FALSE, proc.out, proc.err, TRUE)]

\* the child exits by itself
ProcExit ==
    /\ proc.phase = "running"
    /\ \E code \in {"0", "1"} :
          proc' = [proc EXCEPT !.phase = "returned", !.code = code,
                               !.text = Returned(proc.stream, proc.out, proc.err, FALSE)]

(***************************************************************************)
(* Specifications                                                          *)
(***************************************************************************)
IdlePlan  == plan_json = NoPlan /\ plan_call = NoCall
IdleLoop  ==
    /\ messages = <<>> /\ step_index = 0 /\ pc = "idle" /\ tool_calls = <<>>
    /\ finalize_args = NoArgs /\ events = <<>>
    /\ trace = [llm_calls |-> 0, tools |-> <<>>, written |-> 0, notes |-> 0]
    /\ turn = Turn("none", 0, "", NoneCm, {})
    /\ cfg = [max_steps |-> 0]
IdleGraph == node = "idle" /\ gstate = GState(0, 0, <<>>, "none", FALSE, "", 0, "none")
IdlePatch ==
    /\ tree = <<>> /\ patch_text = <<>> /\ patch_out = NoOut /\ tool_out = NoToolOut
    /\ proc = NoProc

PlanInit == IdlePlan /\ IdleLoop /\ IdleGraph /\ IdlePatch
PlanNext ==
    \/ PlanCallSteps /\ UNCHANGED <<loopVars, graphVars, patchVars>>
    \/ PlanCallMarks /\ UNCHANGED <<loopVars, graphVars, patchVars>>
    \/ PlanUpdateRun /\ UNCHANGED <<loopVars, graphVars, patchVars>>
PlanSpec == PlanInit /\ [][PlanNext]_vars

\* run_tool_loop up to its first iteration: messages = initialize_messages(...)
LoopInit ==
    /\ plan_json \in LoopInitPlans
    /\ plan_call = NoCall
    /\ cfg \in LoopConfigs
    /\ messages = <<Msg("human", "first", FirstLen, "")>>
    /\ step_index = 0
    /\ pc = AfterStep(-1, cfg.max_steps)
    /\ tool_calls = <<>>
    /\ finalize_args = NoArgs
    /\ events = <<>>
    /\ trace = [llm_calls |-> 0, tools |-> <<>>, written |-> 0, notes |-> 0]
    /\ turn = Turn("none", 0, "", NoneCm, {})
    /\ IdleGraph /\ IdlePatch
LoopNext ==
    \/ LLMStep /\ UNCHANGED <<plan_call, graphVars, patchVars>>
    \/ HandleFinalize /\ UNCHANGED <<plan_call, graphVars, patchVars>>
    \/ ExecuteTool /\ UNCHANGED <<plan_call, graphVars, patchVars>>
    \/ EndStep /\ UNCHANGED <<plan_call, graphVars, patchVars>>
LoopSpec == LoopInit /\ [][LoopNext]_vars


\* graph.invoke(state) with the state the drivers build: transcript = []
GraphInit ==
    /\ node = "analysis"
    /\ \E n \in 0..MaxLoops : gstate = GState(n, 0, <<>>, "none", FALSE, "", 0, "none")
    /\ IdlePlan /\ IdleLoop /\ IdlePatch
GraphNext ==
    \/ AnalysisNode /\ UNCHANGED <<plan_call, loopVars, patchVars>>
    \/ SetupNode /\ UNCHANGED <<plan_call, loopVars, patchVars>>
    \/ PlannerNode /\ UNCHANGED <<plan_call, loopVars, patchVars>>
    \/ CoderNode /\ UNCHANGED <<plan_call, loopVars, patchVars>>
    \/ TestLintNode /\ UNCHANGED <<plan_call, loopVars, patchVars>>
GraphSpec == GraphInit /\ [][GraphNext]_vars

\* _handle_finalize_call on one finalize call: every commit_message, with and
\* without an artifacts directory, over a missing, an unreadable and a readable plan
GatePlans ==
    {NoPlan, CorruptPlan,
     ValidPlan(<<Step("a", "in_progress", FALSE), Step("b", "completed", FALSE)>>),
     ValidPlan(<<Step("a", "completed", FALSE)>>)}
GateInit ==
    /\ plan_json \in GatePlans
    /\ plan_call = NoCall
    /\ cfg \in [stop_on_finalize : BOOLEAN, check_plan_completion : BOOLEAN,
                has_artifacts_dir : BOOLEAN, disk_fails : BOOLEAN]
    /\ \E cm \in {"fix", "", " ", NoneCm} :
          tool_calls = <<[Call("finalize", cm, NoCall, 0, FALSE) EXCEPT !.uid = 1]>>
    /\ messages = <<Msg("human", "first", FirstLen, "")>>
    /\ step_index = 0
    /\ pc = "tools"
    /\ finalize_args = NoArgs
    /\ events = <<>>
    /\ trace = [llm_calls |-> 1, tools |-> <<>>, written |-> 0, notes |-> 0]
    /\ turn = Turn("calls", 0, "text", NoneCm, {})
    /\ IdleGraph /\ IdlePatch
GateNext == HandleFinalize /\ UNCHANGED <<plan_call, graphVars, patchVars>>
GateSpec == GateInit /\ [][GateNext]_vars

\* _execute_tool on the shell calls of one loop: the model proposes the same or
\* different shell commands several times in a row
MaxShellCalls == 4
ShellCommands == {"npm test", "npx jest", "ls"}
ShellCallSeqs ==
    {cs \in SeqsUpTo([command : ShellCommands, raises : BOOLEAN], MaxShellCalls) :
        Len(cs) >= 1}
\* the call records queued for a sequence of shell commands
QueuedShellCalls(cs) ==
    [i \in 1..Len(cs) |->
        [name |-> "shell", id |-> "call", uid |-> i, cm |-> NoneCm, upd |-> NoCall,
         res_len |-> 30, raises |-> cs[i].raises, command |-> cs[i].command]]

RepeatInit ==
    /\ \E cs \in ShellCallSeqs :
          /\ tool_calls = QueuedShellCalls(cs)
          /\ cfg = [has_artifacts_dir |-> TRUE, disk_fails |-> FALSE,
                    max_tool_result_chars |-> 40, calls |-> QueuedShellCalls(cs)]
    /\ messages = <<Msg("human", "first", FirstLen, "")>>
    /\ step_index = 0
    /\ pc = "tools"
    /\ finalize_args = NoArgs
    /\ events = <<>>
    /\ trace = [llm_calls |-> 1, tools |-> <<>>, written |-> 0, notes |-> 0]
    /\ turn = Turn("calls", 0, "text", NoneCm, {})
    /\ IdlePlan /\ IdleGraph /\ IdlePatch
RepeatNext == ExecuteTool /\ UNCHANGED <<plan_call, graphVars, patchVars>>
RepeatSpec == RepeatInit /\ [][RepeatNext]_vars

\* _find_context_core on its own: every file and context of a few lines over lines
\* that differ in whitespace and punctuation, from every cursor
MaxSearchLen == 3
SearchLineSet == {"x", "x ", " x", "y", "Y"}
SearchContextSet == {"x", "x ", "y", "z"}

FindContext ==
    /\ patch_out.phase = "search"
    /\ patch_out' = [patch_out EXCEPT
                        !.phase = "found",
                        !.found = _find_context_core(tree, patch_text, patch_out.start)]
    /\ UNCHANGED <<tree, patch_text, tool_out, proc>>

FindInit ==
    /\ tree \in SeqsUpTo(SearchLineSet, MaxSearchLen)
    /\ patch_text \in SeqsUpTo(SearchContextSet, MaxSearchLen)
    /\ \E start \in 0..Len(tree) :
          patch_out = [phase |-> "search", start |-> start, found |-> Found(-1, 0)]
    /\ tool_out = NoToolOut
    /\ proc = NoProc
    /\ IdlePlan /\ IdleLoop /\ IdleGraph
FindNext == FindContext /\ UNCHANGED <<planVars, loopVars, graphVars>>
FindSpec == FindInit /\ [][FindNext]_vars

\* _execute_tool lines 343-366 on its own: results of every length clipped under
\* every small max_tool_result_chars
MaxResultLen == 30
MaxClipLimit == 25

ClipResult ==
    /\ pc = "clip"
    /\ \E n \in 0..MaxResultLen :
          messages' = <<CallMsg("ai", "echo", 0, "call", {1}),
                        CallMsg("tool", "shell", clip_text(n, cfg.max_tool_result_chars),
                                "call", {1})>>
    /\ UNCHANGED <<step_index, pc, tool_calls, finalize_args, events, trace, turn, cfg>>

ClipInit ==
    /\ messages = <<>>
    /\ pc = "clip"
    /\ cfg \in [max_tool_result_chars : 0..MaxClipLimit]
    /\ step_index = 0 /\ tool_calls = <<>> /\ finalize_args = NoArgs /\ events = <<>>
    /\ trace = [llm_calls |-> 0, tools |-> <<>>, written |-> 0, notes |-> 0]
    /\ turn = Turn("none", 0, "", NoneCm, {})
    /\ IdlePlan /\ IdleGraph /\ IdlePatch
ClipNext == ClipResult /\ UNCHANGED <<planVars, graphVars, patchVars>>
ClipSpec == ClipInit /\ [][ClipNext]_vars

\* coder_node resuming the conversation of its previous iteration
ResumeCap == 60         \* "len(prior_messages) > 60", "prior_messages[-60:]"
MaxPrior  == 62         \* longest history returned by the previous iteration
ExtraLen  == 40         \* json.dumps({"continue": True, "context": context})

\* what one step of the previous iteration left in the history it returned: a text
\* turn (never cleaned, never trimmed), an empty turn that was nudged, a turn with
\* one tool call (cleaned at the end of the step)
PriorTurnKinds == {"text", "nudge", "tools"}
PriorTurn(kind) ==
    IF kind = "text"
    THEN <<Msg("human", "turns", TurnsLen, ""), Msg("ai", "text", AiTextLen, "")>>
    ELSE IF kind = "nudge"
    THEN <<Msg("human", "turns", TurnsLen, ""), Msg("ai", "text", 0, ""),
           Msg("human", "continue", ContinueLen, "")>>
    ELSE <<CallMsg("ai", "calls", AiTextLen, "", {1}), CallMsg("ai", "echo", 0, "call", {1}),
           CallMsg("tool", "shell", 35, "call", {1})>>

\* lines 117-119: the prior messages, cut to the last 60 when there are more
CapPrior(prior_messages) ==
    IF Len(prior_messages) > ResumeCap
    THEN SubSeq(prior_messages, Len(prior_messages) - ResumeCap + 1, Len(prior_messages))
    ELSE prior_messages

\* initialize_messages: the prior conversation plus the extra user message, or the
\* first message built from the system prompt and the input
initialize_messages(initial_messages, has_extra) ==
    IF initial_messages # <<>>
    THEN initial_messages
         \o (IF has_extra THEN <<Msg("human", "extra", ExtraLen, "")>> ELSE <<>>)
    ELSE <<Msg("human", "first", FirstLen, "")>>

\* a step of the previous iteration, seen through the history it returns
PriorStep ==
    /\ pc = "prior"
    /\ Len(messages) + Len(PriorTurn(cfg.turn_kind)) <= MaxPrior
    /\ messages' = messages \o PriorTurn(cfg.turn_kind)
    /\ UNCHANGED <<step_index, pc, tool_calls, finalize_args, events, trace, turn, cfg>>

\* coder_node lines 115-148: state["coder_messages"] of the previous iteration, capped,
\* handed to run_tool_loop as initial_messages with the extra user message
CoderResume ==
    /\ pc = "prior"
    /\ messages' = initialize_messages(CapPrior(messages), TRUE)
    /\ pc' = "resumed"
    /\ UNCHANGED <<step_index, tool_calls, finalize_args, events, trace, turn, cfg>>

ResumeInit ==
    /\ messages = initialize_messages(<<>>, TRUE)
    /\ pc = "prior"
    /\ cfg \in [turn_kind : PriorTurnKinds]
    /\ step_index = 0 /\ tool_calls = <<>> /\ finalize_args = NoArgs /\ events = <<>>
    /\ trace = [llm_calls |-> 0, tools |-> <<>>, written |-> 0, notes |-> 0]
    /\ turn = Turn("none", 0, "", NoneCm, {})
    /\ IdlePlan /\ IdleGraph /\ IdlePatch
ResumeNext ==
    \/ PriorStep /\ UNCHANGED <<planVars, graphVars, patchVars>>
    \/ CoderResume /\ UNCHANGED <<planVars, graphVars, patchVars>>
ResumeSpec == ResumeInit /\ [][ResumeNext]_vars

\* unified_agent_run(state) on an artifacts directory with or without a plan.json
UnifiedInit ==
    /\ node = "unified"
    /\ gstate = GState(0, 0, <<>>, "none", FALSE, "", 0, "none")
    /\ plan_json \in LoopInitPlans \cup {ValidPlan(S) : S \in PlannerPlans}
    /\ plan_call = NoCall
    /\ IdleLoop /\ IdlePatch
UnifiedNext ==
    \/ UnifiedRun /\ UNCHANGED <<plan_call, loopVars, patchVars>>
    \/ RunSummary /\ UNCHANGED <<plan_call, loopVars, patchVars>>
UnifiedSpec == UnifiedInit /\ [][UnifiedNext]_vars

\* The patch tool on a working tree of two paths
PatchInit ==
    /\ \/ \E in \in FixedInputs \cup DriftInputs : tree = in.tree /\ patch_text = in.patch
       \/ \E shape \in UpdateShapes : \E f \in Files : \E h \in Hunks :
             /\ tree = UpdateInput(shape, f, h).tree
             /\ patch_text = UpdateInput(shape, f, h).patch
    /\ patch_out = NoOut
    /\ tool_out = NoToolOut
    /\ proc = NoProc
    /\ IdlePlan /\ IdleLoop /\ IdleGraph
PatchNext ==
    \/ ApplyPatch
    \/ ProcessInverse
PatchSpec == PatchInit /\ [][PatchNext]_vars

\* one call of the shell tool
ShellInit ==
    /\ proc = NoProc
    /\ tree = <<>> /\ patch_text = <<>> /\ patch_out = NoOut /\ tool_out = NoToolOut
    /\ IdlePlan /\ IdleLoop /\ IdleGraph
ShellNext ==
    \/ ShellCall /\ UNCHANGED <<tree, patch_text, patch_out, tool_out, planVars, loopVars, graphVars>>
    \/ ProcWrite /\ UNCHANGED <<tree, patch_text, patch_out, tool_out, planVars, loopVars, graphVars>>
    \/ Deadline /\ UNCHANGED <<tree, patch_text, patch_out, tool_out, planVars, loopVars, graphVars>>
    \/ ProcExit /\ UNCHANGED <<tree, patch_text, patch_out, tool_out, planVars, loopVars, graphVars>>
ShellSpec == ShellInit /\ [][ShellNext]_vars

\* trim_messages on its own: histories built message by message and trimmed under
\* the keep_last_messages and max_history_chars of the call
MaxHistory == 4
TrimMsgs ==
    {Msg("ai", "text", AiTextLen, ""), Msg("human", "nudge", NudgeLen, ""),
     Msg("ai", "calls", 0, "")}
TrimConfigs == [keep_last_messages : {-1, 1, 2, 3}, max_history_chars : {150, 1000}]

TrimAppend ==
    /\ pc \in {"build", "trimmed"}
    /\ Len(messages) < MaxHistory
    /\ \E m \in TrimMsgs : messages' = Append(messages, m)
    /\ pc' = "build"
    /\ UNCHANGED <<step_index, tool_calls, finalize_args, events, trace, turn, cfg>>

TrimCall ==
    /\ pc = "build"
    /\ messages' = trim_messages(messages, cfg.keep_last_messages, cfg.max_history_chars)
    /\ pc' = "trimmed"
    /\ UNCHANGED <<step_index, tool_calls, finalize_args, events, trace, turn, cfg>>

TrimInit ==
    /\ messages = <<>> /\ pc = "build" /\ cfg \in TrimConfigs
    /\ step_index = 0 /\ tool_calls = <<>> /\ finalize_args = NoArgs /\ events = <<>>
    /\ trace = [llm_calls |-> 0, tools |-> <<>>, written |-> 0, notes |-> 0]
    /\ turn = Turn("none", 0, "", NoneCm, {})
    /\ IdlePlan /\ IdleGraph /\ IdlePatch
TrimNext ==
    \/ TrimAppend /\ UNCHANGED <<planVars, graphVars, patchVars>>
    \/ TrimCall /\ UNCHANGED <<planVars, graphVars, patchVars>>
TrimSpec == TrimInit /\ [][TrimNext]_vars

(***************************************************************************)
(* Properties                                                              *)
(***************************************************************************)
\* a step of the stored plan whose status is outside {completed, stuck}
\* (a step without status counts as pending)
HasOpenStep(pj) ==
    /\ pj.kind = "valid"
    /\ \E k \in 1..Len(pj.steps) : pj.steps[k].status \notin {"completed", "stuck"}

AtFinalizeCall == pc = "tools" /\ tool_calls # <<>> /\ Head(tool_calls).name = "finalize"

\* C1: with check_plan_completion enabled and a plan.json present, a finalize call
\* made while some plan step has a status outside {completed, stuck} is rejected,
\* whatever its commit_message: a rejection event is recorded, finalize_args stays
\* None and the loop does not return on that call.
C1_FinalizeGated ==
    [][(AtFinalizeCall /\ cfg.check_plan_completion /\ cfg.has_artifacts_dir
            /\ HasOpenStep(plan_json))
       => /\ finalize_args' = NoArgs
          /\ pc' = "tools"
          /\ events' = Append(events, Ev("tool", "finalize", Head(tool_calls).uid, "rejected"))]_vars

\* C1 witness: a finalize with a good commit_message was rejected for open steps
C1_Witness ==
    /\ turn.path = "rejected"
    /\ turn.cm = "fix"
    /\ turn.ids # {}
    /\ finalize_args = NoArgs

\* what is left of the loop: unspent LLM invocations, each worth the most work a
\* step can take, plus the work left in the current step
LoopMeasure ==
    (cfg.max_steps - trace.llm_calls) * (MaxCalls + 2)
    + (IF pc = "tools" THEN Len(tool_calls) + 1 ELSE 0)

\* C2: run_tool_loop never invokes the LLM more than max_steps times and always
\* returns, whatever the LLM and the tools do: the loop is never stuck before its
\* return, and every step it takes (LLM error, text-only turn, nudged empty turn,
\* rejected finalize, tool call) strictly lowers a measure that is never negative.
C2_Terminates ==
    /\ [](/\ trace.llm_calls <= cfg.max_steps
          /\ LoopMeasure >= 0
          /\ pc \in {"llm", "tools", "returned"}
          /\ pc = "llm" => trace.llm_calls < cfg.max_steps)
    /\ [][LoopMeasure' < LoopMeasure]_vars

\* C2 witness: the loop returned after spending its whole budget on an LLM error,
\* a rejected finalize, a text-only turn or a nudged empty turn
C2_Witness ==
    /\ pc = "returned"
    /\ trace.llm_calls = cfg.max_steps
    /\ finalize_args = NoArgs
    /\ \E p \in 1..Len(events) : events[p].type = "error"
    /\ turn.path \in {"tools", "text", "nudge", "error"}

\* C5: after any sequence of plan_update calls every step of the stored plan has a
\* status in {pending, in_progress, completed, stuck}, the step ids are pairwise
\* distinct, and at most one step is in_progress.
C5_PlanWellFormed ==
    plan_json.kind = "valid" =>
        LET st == plan_json.steps
        IN /\ \A k \in 1..Len(st) : st[k].status \in ValidStatuses
           /\ \A j, k \in 1..Len(st) : j # k => Str(st[j].id) # Str(st[k].id)
           /\ Cardinality({k \in 1..Len(st) : st[k].status = "in_progress"}) <= 1

AtStepsCall == ~plan_call.none /\ plan_call.given

SameIdSteps(prev, s) == {j \in 1..Len(prev) : Str(prev[j].id) = Str(s.id)}

C7_HistoryBound ==
    (pc \in {"llm", "returned"} /\ turn.path \in {"tools", "text", "nudge", "error"})
        => \/ SumLen(messages) <= cfg.max_history_chars
           \/ Len(messages) <= 2

ToolEventPositions(uid) ==
    {p \in 1..Len(events) : events[p].type = "tool" /\ events[p].uid = uid
                            /\ events[p].tool # "finalize"}

\* uids of the tool calls of step n (1-based)
StepUids(n) == {(n - 1) * MaxCalls + k : k \in 1..MaxCalls}

\* C8: every invocation of a registered non-finalize tool has exactly one event
\* {tool, args, result}, appended right after the tool returned and before the next
\* tool call starts; the assistant event of a turn with text comes before every
\* tool event of that turn.
C8_EventOrdering ==
    /\ \A i \in 1..Len(trace.tools) :
          LET t == trace.tools[i]
          IN /\ ToolEventPositions(t.uid) = {t.ev_ret + 1}
             /\ events[t.ev_ret + 1].tool = t.name
             /\ i < Len(trace.tools) => trace.tools[i + 1].ev_ret >= t.ev_ret + 1
    /\ (turn.path \in {"calls", "rejected", "accepted", "tools"} /\ HasText(turn.content)) =>
          \E p \in 1..Len(events) :
              /\ events[p].type = "assistant"
              /\ events[p].uid = turn.step
              /\ events[p].result = "has_tool_calls"
              /\ \A q \in 1..Len(events) :
                    (events[q].type = "tool" /\ events[q].uid \in StepUids(turn.step)) => p < q
              /\ \A q \in 1..Len(events) :
                    (events[q].type = "assistant" /\ events[q].uid = turn.step) => q = p

\* C8 witness: a turn with text ran two registered tools, one of which raised
C8_Witness ==
    /\ HasText(turn.content)
    /\ turn.path = "tools"
    /\ \E i \in 1..Len(trace.tools) :
          /\ i + 1 <= Len(trace.tools)
          /\ trace.tools[i].uid \in StepUids(turn.step)
          /\ trace.tools[i + 1].uid \in StepUids(turn.step)
          /\ events[trace.tools[i].ev_ret + 1].result = "error"


\* C3: in a run of the graph built with max_loops = N the coder node executes at
\* most N times; once the ceiling is reached the graph ends instead of entering
\* coder again.
C3_CoderCeiling ==
    gstate.coder_runs <= gstate.max_loops

\* every step of the plan on disk has status completed
DiskPlanCompleted ==
    \A k \in 1..Len(ExistingSteps(plan_json)) : ExistingSteps(plan_json)[k].status = "completed"

\* C10: when test_lint finishes with the tests passed (or no test command run) and
\* every step of the plan on disk completed, iteration.done is true and the graph
\* ends without running coder again; in every other case the graph goes back to
\* coder.
C10_TestLintGate ==
    gstate.last = "test_lint" =>
        IF gstate.last_test \in {"ok", "none"} /\ DiskPlanCompleted
        THEN gstate.done /\ node = "END"
        ELSE node = "coder"


(***************************************************************************)
(* Patch engine properties                                                 *)
(***************************************************************************)
\* a context matches the file at 0-based position i under one of the four passes
MatchesAt(file_lines, ctx, i) ==
    LET n == Len(ctx)
    IN /\ i + n <= Len(file_lines)
       /\ \/ \A k \in 1..n : _canon_punct(file_lines[i + k]) = _canon_punct(ctx[k])
          \/ \A k \in 1..n : CanonR(file_lines[i + k]) = CanonR(ctx[k])
          \/ \A k \in 1..n : CanonS(file_lines[i + k]) = CanonS(ctx[k])
          \/ /\ n >= 2
             /\ _canon_punct(file_lines[i + 1]) = _canon_punct(ctx[1])
             /\ _canon_punct(file_lines[i + n]) = _canon_punct(ctx[n])
Locatable(file_lines, ctx) ==
    ctx = <<>> \/ \E i \in 0..(Len(file_lines) - 1) : MatchesAt(file_lines, ctx, i)

ContextErrors == {"Invalid Context", "Invalid EOF Context"}

\* the patch opens with clean Add blocks and then an Update of an existing
\* file at line u whose first hunk (after an optional bare "@@") starts at h
FirstUpdateAt(u, h) ==
    /\ u \in 2..Len(patch_text) /\ patch_text[u].k = "update"
    /\ patch_out.orig[patch_text[u].p].exists
    /\ \A k \in 2..(u - 1) :
          \/ patch_text[k].k = "add" /\ ~patch_out.orig[patch_text[k].p].exists
          \/ patch_text[k].k = "hunk" /\ patch_text[k].m = "+" /\ k > 2
    /\ \A k \in 2..(u - 1) : \A j \in 2..(u - 1) :
          (k # j /\ patch_text[k].k = "add" /\ patch_text[j].k = "add")
              => patch_text[k].p # patch_text[j].p
    /\ h \in {u + 1, u + 2} /\ h <= Len(patch_text)
    /\ h = u + 2 => patch_text[u + 1].k = "bare"
    /\ patch_text[h].k = "hunk"
    /\ patch_text[1].k = "begin" /\ patch_text[Len(patch_text)].k = "end"
    /\ \A k \in 1..Len(patch_text) :
          patch_text[k].k \in {"update", "delete"} => patch_out.orig[patch_text[k].p].exists

\* C4: a hunk whose context cannot be located makes apply_patch answer
\* "ERROR: Patch format error: Invalid Context ..." (or "Invalid EOF Context"),
\* and a patch that is not applied leaves every file of the tree as it was,
\* the files of the patch's other actions included; a patch answered "Done!"
\* had every hunk's context located.
C4_ContextFailureAtomic ==
    patch_out.phase = "applied" =>
        /\ \A u \in 1..Len(patch_text) : \A h \in 1..Len(patch_text) :
              ( /\ FirstUpdateAt(u, h)
                /\ ~_peek_next_section(patch_text, h).err
                /\ ~Locatable(patch_out.orig[patch_text[u].p].lines,
                              _peek_next_section(patch_text, h).old) )
              => /\ patch_out.res = "ERROR: Patch format error"
                 /\ patch_out.err \in ContextErrors
        /\ patch_out.err \in ContextErrors => patch_out.res = "ERROR: Patch format error"
        /\ patch_out.res # "Done!" => tree = patch_out.orig
        /\ patch_out.res = "Done!" =>
              \A k \in 1..Len(patch_out.parsed.actions) :
                  LET a == patch_out.parsed.actions[k]
                  IN \A j \in 1..Len(a.sections) :
                        Locatable(patch_out.orig[a.path].lines, a.sections[j].ctx)

\* a patch whose Add of g parsed cleanly before the Update of f failed on its context
C4_Witness ==
    /\ patch_out.phase = "applied"
    /\ patch_out.res = "ERROR: Patch format error"
    /\ patch_out.err = "Invalid Context"
    /\ Len(patch_out.parsed.actions) >= 1
    /\ patch_out.parsed.actions[1].type = "add"
    /\ ~tree["g"].exists
    /\ tree = patch_out.orig

OnlyUpdates ==
    \A k \in 1..Len(patch_out.parsed.actions) : patch_out.parsed.actions[k].type = "update"

\* C9: a patch of Update hunks that applied cleanly, followed by
\* its inverse, leaves the file as it was before the patch.
C9_RoundTrip ==
    (patch_out.phase = "inverted" /\ OnlyUpdates) => tree = patch_out.orig

(***************************************************************************)
(* Finalize handling and error containment of the tool loop                *)
(***************************************************************************)
\* the step taken is the rejection / the acceptance of the finalize call at the head
RejectedStep ==
    /\ AtFinalizeCall
    /\ events' = Append(events, Ev("tool", "finalize", Head(tool_calls).uid, "rejected"))
AcceptedStep ==
    /\ AtFinalizeCall
    /\ events' = Append(events, Ev("tool", "finalize", Head(tool_calls).uid, "finalize"))
    /\ finalize_args' = Args(Head(tool_calls).cm)

\* a finalize call of step n (1-based) was rejected
RejectedIn(n) ==
    \E p \in 1..Len(events) :
        /\ events[p].type = "tool" /\ events[p].tool = "finalize"
        /\ events[p].result = "rejected"
        /\ events[p].uid \in StepUids(n)

\* plan gating applies: check_plan_completion, an artifacts dir, a readable plan.json
Gated == cfg.check_plan_completion /\ cfg.has_artifacts_dir /\ plan_json.kind = "valid"

\* the steps of the plan that are neither completed nor stuck
OpenIdx ==
    IF Gated
    THEN {k \in 1..Len(plan_json.steps) :
              plan_json.steps[k].status \notin {"completed", "stuck"}}
    ELSE {}

StuckCount == Cardinality({k \in 1..Len(plan_json.steps) : plan_json.steps[k].status = "stuck"})

\* what a rejection does to the history and to the loop
RejectionRecorded ==
    /\ messages' = messages \o
          <<CallMsg("tool", "finalize", ArgsTextLen, Head(tool_calls).id,
                    {Head(tool_calls).uid}),
            Msg("human", "nudge", NudgeLen + (IF OpenIdx # {} THEN NudgeIdsLen ELSE 0), "")>>
    /\ turn'.ids = OpenIdx
    /\ finalize_args' = NoArgs
    /\ pc' = "tools"
    /\ step_index' = step_index
    /\ tool_calls' = Tail(tool_calls)

\* C11 (as stated): a rejected finalize appends the ToolMessage answering the call
\* and then a nudge HumanMessage naming the incomplete step ids, the loop does not
\* return on it, and the step counts against max_steps: after a step with a
\* rejection the LLM is invoked again unless the step budget is exhausted.
C11_RejectionContinues ==
    /\ [][RejectedStep => RejectionRecorded]_vars
    /\ []((RejectedIn(turn.step) /\ pc \in {"llm", "returned"}) =>
              /\ step_index = turn.step
              /\ pc = "returned" => trace.llm_calls = cfg.max_steps)

\* C11 (amended): as above, except that the step ends the loop without another
\* LLM invocation when a later finalize call of the same turn is accepted while
\* stop_on_finalize is enabled; the loop then returns that call's arguments.
C11_RejectionContinuesUnlessAccepted ==
    /\ [][RejectedStep => RejectionRecorded]_vars
    /\ []((RejectedIn(turn.step) /\ pc \in {"llm", "returned"}) =>
              IF turn.path = "accepted"
              THEN cfg.stop_on_finalize /\ pc = "returned" /\ finalize_args # NoArgs
              ELSE /\ step_index = turn.step
                   /\ pc = "returned" => trace.llm_calls = cfg.max_steps)

\* C11 witness: step 1 had a finalize rejected for open steps, the nudge naming
\* them is in the history, and the LLM has been invoked a second time
C11_Witness ==
    /\ RejectedIn(1)
    /\ trace.llm_calls = 2
    /\ turn.step = 2
    /\ \E k \in 1..Len(messages) :
           messages[k].tag = "nudge" /\ messages[k].len = NudgeLen + NudgeIdsLen

\* the stored plan lets finalize through: every step completed or stuck and the
\* stuck share at most max_stuck_ratio (a missing plan or gating switched off too)
PlanSettled ==
    Gated => /\ OpenIdx = {}
             /\ StuckCount * MaxStuckRatioDen <= MaxStuckRatioNum * Len(plan_json.steps)

ErrorCount(evs) == Cardinality({p \in 1..Len(evs) : evs[p].type = "error"})

\* C15: an exception of the LLM invocation does not leave the loop: the step
\* appends an assistant message carrying the error text, records exactly one event
\* of type error, and the loop goes on to the next step while steps remain.
C15_LLMErrorContained ==
    /\ [](pc \in {"llm", "tools", "returned"})
    /\ [][(pc = "llm" /\ turn'.path = "error") =>
             /\ Len(messages') > Len(messages)
             /\ messages'[Len(messages')] = Msg("ai", "error", ErrTextLen, "")
             /\ SubSeq(messages', 1, Len(messages)) = messages
             /\ ErrorCount(events') = ErrorCount(events) + 1
             /\ step_index' = step_index + 1
             /\ pc' = (IF step_index + 1 < cfg.max_steps THEN "llm" ELSE "returned")
             /\ finalize_args' = finalize_args]_vars

\* C15 witness: the first LLM invocation raised and the loop is about to invoke again
C15_Witness ==
    /\ turn.path = "error"
    /\ pc = "llm"
    /\ ErrorCount(events) = 1
    /\ trace.llm_calls = 1

AtRaisingTool ==
    /\ pc = "tools" /\ tool_calls # <<>>
    /\ Head(tool_calls).name \in RegisteredTools \ {"finalize"}
    /\ Head(tool_calls).raises

\* C16: an exception raised while a tool executes does not leave the loop: the
\* call yields the text "Tool error: ...", recorded as the call's event and
\* appended as its ToolMessage, and the calls after it in the turn are processed
\* next, in the order given.
C16_ToolErrorContained ==
    /\ [](pc # "crashed")
    /\ [][AtRaisingTool =>
             /\ events' = Append(events, Ev("tool", Head(tool_calls).name,
                                            Head(tool_calls).uid, "error"))
             /\ Len(messages') > Len(messages)
             /\ messages'[Len(messages')] =
                    CallMsg("tool", Head(tool_calls).name, ToolErrLen, Head(tool_calls).id,
                            {Head(tool_calls).uid})
             /\ tool_calls' = Tail(tool_calls)
             /\ pc' = "tools"]_vars
    /\ [](\A i \in 1..Len(trace.tools) : \A j \in 1..Len(trace.tools) :
              i < j => trace.tools[i].uid < trace.tools[j].uid)

\* C16 witness: a tool raised and the call right after it in the same turn ran
C16_Witness ==
    \E i \in 1..Len(trace.tools) :
        /\ i + 1 <= Len(trace.tools)
        /\ events[trace.tools[i].ev_ret + 1].result = "error"
        /\ trace.tools[i + 1].uid = trace.tools[i].uid + 1
        /\ \E k \in 1..Len(events) : events[k].uid = trace.tools[i + 1].uid /\ events[k].type = "tool"

\* C17: a finalize call whose commit_message is missing, not a string or empty
\* after trimming is rejected, with gating on or off and whatever the plan.
C17_CommitMessageRequired ==
    [][(AtFinalizeCall /\ Head(tool_calls).cm \in {NoneCm, "", " "})
           => RejectedStep /\ finalize_args' = NoArgs /\ pc' = "tools"]_vars

\* C17 witness: with gating off, a whitespace-only or missing commit_message was rejected
C17_Witness ==
    /\ turn.path = "rejected"
    /\ turn.cm \in {NoneCm, " "}
    /\ ~cfg.check_plan_completion
    /\ finalize_args = NoArgs

\* C18: with stop_on_finalize, the acceptance of a finalize call returns from the
\* loop with the call's arguments; after the return no tool call is executed and
\* the LLM is not invoked.
C18_AcceptReturnsAtOnce ==
    /\ [][(AcceptedStep /\ cfg.stop_on_finalize) => pc' = "returned"]_vars
    /\ [][pc = "returned" => UNCHANGED <<trace, events, messages, finalize_args>>]_vars
    /\ []((turn.path = "accepted" /\ cfg.stop_on_finalize) =>
              pc = "returned" /\ finalize_args = Args(turn.cm))

\* C18 witness: the loop returned on an accepted finalize with a call of the same
\* turn left unexecuted and steps left in the budget
C18_Witness ==
    /\ pc = "returned"
    /\ turn.path = "accepted"
    /\ cfg.stop_on_finalize
    /\ tool_calls # <<>>
    /\ trace.llm_calls < cfg.max_steps
    /\ trace.tools = <<>>

\* C20: with gating on, a finalize call is rejected whenever stuck steps / all steps
\* is strictly greater than max_stuck_ratio, even with no step pending or
\* in_progress; at a share equal to the ratio a call with a commit message and no
\* open step is accepted.
C20_StuckRatioStrict ==
    [][(AtFinalizeCall /\ Gated /\ Len(plan_json.steps) > 0) =>
          /\ StuckCount * MaxStuckRatioDen > MaxStuckRatioNum * Len(plan_json.steps)
                => RejectedStep
          /\ ( /\ StuckCount * MaxStuckRatioDen = MaxStuckRatioNum * Len(plan_json.steps)
               /\ OpenIdx = {}
               /\ Head(tool_calls).cm = "fix" )
                => AcceptedStep]_vars

\* C20 witness: a finalize was rejected at four stuck steps of five with no step
\* open, and accepted once the stuck share was exactly three of five
C20_Witness ==
    /\ turn.path = "accepted"
    /\ Gated
    /\ Len(plan_json.steps) = 5
    /\ StuckCount = 3
    /\ RejectedIn(1)
    /\ turn.step = 2

(***************************************************************************)
(* Path-taking tools (tools/lc_tools.py, tools/fs.py) on a file system     *)
(* that has the repository root and files outside of it                    *)
(***************************************************************************)
\* the file paths a caller passes: one under the root, one escaping it, one absolute
FsPaths == {"f"} \cup EscapingPaths \cup AbsolutePaths
OutsidePaths == EscapingPaths \cup AbsolutePaths
\* the directory paths a caller passes to list_dir and search
DirArgs == {".", "..", "/"}
OutsideArgs == OutsidePaths \cup {"..", "/"}
FsContents == {<<"x">>, <<"y">>}

\* _abs: repo_dir / rel, with nothing checked: the location the tool works on is
\* the path as given (an absolute rel replaces repo_dir, ".." climbs out of it)
_abs(rel) == rel

\* the files under the directory _abs names
Under(dir) ==
    IF _abs(dir) = "." THEN {"f"} ELSE IF _abs(dir) = ".." THEN EscapingPaths ELSE AbsolutePaths

ToolOut(tool, arg, res, err, read, listed, before) ==
    [tool |-> tool, arg |-> arg, res |-> res, err |-> err, read |-> read,
     listed |-> listed, before |-> before]

\* read_file(path): the text of the file, or NOT_FOUND
ReadFile ==
    /\ \E path \in FsPaths :
          tool_out' = IF tree[_abs(path)].exists
                      THEN ToolOut("read_file", {path}, "text", "", {_abs(path)}, {}, tree)
                      ELSE ToolOut("read_file", {path}, "NOT_FOUND", "", {}, {}, tree)
    /\ UNCHANGED <<tree, patch_text, patch_out>>

\* write_file(path, content): writes, creating the parent directories
WriteFile ==
    /\ \E path \in FsPaths : \E content \in FsContents :
          /\ tree' = [tree EXCEPT ![_abs(path)] = File(content)]
          /\ tool_out' = ToolOut("write_file", {path}, "WROTE", "", {}, {}, tree)
    /\ UNCHANGED <<patch_text, patch_out>>

\* list_dir(path): the entries of the directory
ListDir ==
    /\ \E path \in DirArgs :
          tool_out' = ToolOut("list_dir", {path}, "entries", "", {},
                              {p \in Under(path) : tree[p].exists}, tree)
    /\ UNCHANGED <<tree, patch_text, patch_out>>

\* search(pattern, path): the matching lines of the files of the directory
Search ==
    /\ \E path \in DirArgs :
          tool_out' = ToolOut("search", {path}, "matches", "",
                              {p \in Under(path) : tree[p].exists}, {}, tree)
    /\ UNCHANGED <<tree, patch_text, patch_out>>

\* replace_in_file(path, pattern, replacement): read, substitute, write back
ReplaceInFile ==
    /\ \E path \in FsPaths : \E content \in FsContents :
          IF ~tree[_abs(path)].exists
          THEN /\ tool_out' = ToolOut("replace_in_file", {path}, "NOT_FOUND", "", {}, {}, tree)
               /\ UNCHANGED tree
          ELSE IF tree[_abs(path)].lines = content
          THEN /\ tool_out' = ToolOut("replace_in_file", {path}, "NO_MATCHES", "",
                                      {_abs(path)}, {}, tree)
               /\ UNCHANGED tree
          ELSE /\ tree' = [tree EXCEPT ![_abs(path)] = File(content)]
               /\ tool_out' = ToolOut("replace_in_file", {path}, "REPLACED", "",
                                      {_abs(path)}, {}, tree)
    /\ UNCHANGED <<patch_text, patch_out>>

\* replace_region(path, start_pattern, end_pattern, replacement)
ReplaceRegion ==
    /\ \E path \in FsPaths : \E content \in FsContents :
          IF ~tree[_abs(path)].exists
          THEN /\ tool_out' = ToolOut("replace_region", {path}, "NOT_FOUND", "", {}, {}, tree)
               /\ UNCHANGED tree
          ELSE IF tree[_abs(path)].lines = content
          THEN /\ tool_out' = ToolOut("replace_region", {path}, "NO_START_MATCH", "",
                                      {_abs(path)}, {}, tree)
               /\ UNCHANGED tree
          ELSE /\ tree' = [tree EXCEPT ![_abs(path)] = File(content)]
               /\ tool_out' = ToolOut("replace_region", {path}, "REPLACED REGION", "",
                                      {_abs(path)}, {}, tree)
    /\ UNCHANGED <<patch_text, patch_out>>

\* the paths an Add, Delete or Update line of the patch names
NamedPaths(lines) ==
    {lines[k].p : k \in {j \in 1..Len(lines) : lines[j].k \in {"update", "delete", "add"}}}

\* the answers apply_patch gives before it calls the engine
PreCheckErrors ==
    {"ERROR: Patch must start with", "ERROR: No files found in patch", "ERROR: File not found"}

\* the files process_patch reads through _open, which checks the path first
OpenedFiles(lines, tr, r) ==
    IF r.res \in PreCheckErrors \/ Len(lines) = 0 \/ lines[1].k # "begin" THEN {}
    ELSE {p \in identify_files_needed(lines) : _assert_rel(p) = "" /\ tr[p].exists}

\* the Update targets whose directory apply_patch lists in its "File not found" answer
ListedMissing(lines, tr, r) ==
    IF r.res = "ERROR: File not found"
    THEN {p \in UpdatePaths(lines) : ~tr[p].exists}
    ELSE {}

InsideHunk == <<HunkTok("-", "x"), HunkTok("+", "z")>>

\* patches naming a path outside the root in an Add, a Delete or an Update, alone
\* and next to an action on a file of the repository, and patches that stay inside
FsPatches ==
    UNION {{ Envelope(<<AddTok(o), HunkTok("+", "z")>>),
             Envelope(<<DeleteTok(o)>>),
             Envelope(<<UpdateTok(o)>> \o InsideHunk),
             Envelope(<<UpdateTok("f")>> \o InsideHunk \o <<AddTok(o), HunkTok("+", "z")>>),
             Envelope(<<AddTok(o), HunkTok("+", "z"), UpdateTok("f")>> \o InsideHunk),
             Envelope(<<UpdateTok("f")>> \o InsideHunk \o <<DeleteTok(o)>>),
             Envelope(<<UpdateTok("f")>> \o InsideHunk \o <<UpdateTok(o)>> \o InsideHunk) }
           : o \in OutsidePaths}
    \cup { Envelope(<<UpdateTok("f")>> \o InsideHunk),
           Envelope(<<AddTok("f"), HunkTok("+", "z")>>) }

\* apply_patch(patch_text) called on this file system
ApplyPatchTool ==
    /\ \E lines \in FsPatches : \E r \in {apply_patch(lines, tree)} :
          /\ patch_text' = lines
          /\ tree' = r.tree
          /\ tool_out' = ToolOut("apply_patch", NamedPaths(lines), r.res, r.err,
                                 OpenedFiles(lines, tree, r), ListedMissing(lines, tree, r),
                                 tree)
    /\ UNCHANGED patch_out

\* a repository with or without f, and files outside the root
FsInit ==
    /\ tree \in [FsPaths -> {NoFile, File(<<"x">>)}]
    /\ patch_text = <<>>
    /\ patch_out = NoOut
    /\ tool_out = NoToolOut
    /\ proc = NoProc
    /\ IdlePlan /\ IdleLoop /\ IdleGraph
FsNext ==
    \/ ReadFile /\ UNCHANGED <<proc, planVars, loopVars, graphVars>>
    \/ WriteFile /\ UNCHANGED <<proc, planVars, loopVars, graphVars>>
    \/ ListDir /\ UNCHANGED <<proc, planVars, loopVars, graphVars>>
    \/ Search /\ UNCHANGED <<proc, planVars, loopVars, graphVars>>
    \/ ReplaceInFile /\ UNCHANGED <<proc, planVars, loopVars, graphVars>>
    \/ ReplaceRegion /\ UNCHANGED <<proc, planVars, loopVars, graphVars>>
    \/ ApplyPatchTool /\ UNCHANGED <<proc, planVars, loopVars, graphVars>>
FsSpec == FsInit /\ [][FsNext]_vars

(***************************************************************************)
(* Confinement to the repository root                                      *)
(***************************************************************************)
OutsideUntouched ==
    /\ tool_out.read \cap OutsidePaths = {}
    /\ tool_out.listed \cap OutsidePaths = {}
    /\ \A p \in OutsidePaths : tree[p] = tool_out.before[p]

\* the answers with which a tool turns a call down
Refusals == {"ERROR: Patch format error", "ERROR: Unexpected error"} \cup PreCheckErrors

\* C13: a call of read_file, write_file, list_dir, search, replace_in_file,
\* replace_region or apply_patch with an absolute path or a path resolving outside
\* the repository root is refused, and no call reads, lists or changes anything
\* outside the root.
C13_PathToolsConfined ==
    tool_out.tool # "" =>
        /\ tool_out.arg \cap OutsideArgs # {} => tool_out.res \in Refusals
        /\ OutsideUntouched

\* C14: apply_patch opens, writes and removes no file outside the repository
\* root, and a patch naming an absolute path or a path escaping the root in an
\* Add, Delete or Update line is answered with an error.
C14_PatchConfined ==
    tool_out.tool = "apply_patch" =>
        /\ tool_out.read \cap OutsidePaths = {}
        /\ \A p \in OutsidePaths : tree[p] = tool_out.before[p]
        /\ tool_out.arg \cap OutsidePaths # {} => tool_out.res \in Refusals

\* C14 witness: a patch updating f and then adding a file outside the root was
\* refused at the Add, after f was written, with the outside path left absent
C14_Witness ==
    /\ tool_out.tool = "apply_patch"
    /\ tool_out.res = "ERROR: Patch format error"
    /\ tool_out.err = "Path escapes repository root."
    /\ tree["f"] # tool_out.before["f"]
    /\ \E p \in EscapingPaths : p \in tool_out.arg /\ ~tree[p].exists

(***************************************************************************)
(* mark_in_progress                                                        *)
(***************************************************************************)
\* a plan_update call with mark_in_progress only, naming the id of a step of the plan
AtMarkInProgressOnly ==
    /\ ~plan_call.none /\ ~plan_call.given
    /\ plan_call.mc = {} /\ plan_call.ms = {}
    /\ plan_call.mip # NoneId
    /\ plan_json.kind = "valid"
    /\ \E k \in 1..Len(plan_json.steps) : Str(plan_json.steps[k].id) = Str(plan_call.mip)

\* C19: plan_update called with only mark_in_progress = x, x the id of a step of
\* the plan, leaves exactly one step in_progress, the step with id x; every other
\* step that was in_progress becomes pending and no other step changes status.
C19_MarkInProgressExclusive ==
    [][AtMarkInProgressOnly =>
        LET prev == plan_json.steps
            new  == plan_json'.steps
            x    == Str(plan_call.mip)
        IN /\ Len(new) = Len(prev)
           /\ Cardinality({k \in 1..Len(new) : new[k].status = "in_progress"}) = 1
           /\ \A k \in 1..Len(new) :
                 /\ new[k].status = "in_progress" => Str(new[k].id) = x
                 /\ Str(prev[k].id) # x =>
                        new[k].status = IF prev[k].status = "in_progress" THEN "pending"
                                        ELSE prev[k].status]_vars

(***************************************************************************)
(* Add to an existing file, whitespace drift inside a line                 *)
(***************************************************************************)
\* C21: a patch with an Add File action for a path that exists in the working
\* tree is answered with an error and leaves the content of that file unchanged.
C21_AddExistingFails ==
    patch_out.phase # "new" =>
        \A k \in 1..Len(patch_text) :
            (patch_text[k].k = "add" /\ patch_out.orig[patch_text[k].p].exists) =>
                /\ patch_out.res # "Done!"
                /\ patch_out.mid[patch_text[k].p] = patch_out.orig[patch_text[k].p]

\* the line with every run of spaces inside it reduced to one space
SqueezeInner(l) == IF l = "    return  1" THEN "    return 1" ELSE l

\* the patch is one Update of f whose hunk context differs from the file only in
\* the amount of whitespace inside a line
InnerDrift ==
    /\ patch_out.phase # "new"
    /\ Len(patch_text) >= 4
    /\ patch_text[1].k = "begin" /\ patch_text[2] = UpdateTok("f")
    /\ HunkEnd(patch_text, 3) = Len(patch_text) /\ patch_text[Len(patch_text)].k = "end"
    /\ patch_out.orig["f"].exists
    /\ LET old == _peek_next_section(patch_text, 3).old
           fl  == patch_out.orig["f"].lines
       IN /\ Len(old) = Len(fl)
          /\ old # fl
          /\ \A k \in 1..Len(fl) : SqueezeInner(fl[k]) = SqueezeInner(old[k])

\* C22: an Update hunk whose context differs from the file only in the amount of
\* whitespace inside a line applies: the context is found at pass 2 or 3 with
\* fuzz > 0 and the file is rewritten according to the hunk's '+' and '-' lines.
C22_InnerWhitespaceApplies ==
    InnerDrift =>
        /\ patch_out.res = "Done!"
        /\ patch_out.parsed.fuzz \in {1, 100}
        /\ patch_out.mid["f"].lines =
               _get_updated_file(patch_out.orig["f"].lines,
                                 _peek_next_section(patch_text, 3).chunks).lines

(***************************************************************************)
(* Shell timeouts                                                          *)
(***************************************************************************)
\* C23: whenever the command was killed on timeout, the text returned by the
\* shell tool contains "[KILLED AFTER TIMEOUT]", whether or not the command had
\* written to standard output before it was killed.
C23_TimeoutMarked ==
    (proc.phase = "returned" /\ proc.killed) => proc.text.marker

(***************************************************************************)
(* Failing writes of events.jsonl and of the notes files                   *)
(***************************************************************************)
CountEvents(type) == Cardinality({k \in 1..Len(events) : events[k].type = type})

\* the tool events of the registered tools other than finalize
RegularToolEvents ==
    Cardinality({k \in 1..Len(events) : events[k].type = "tool" /\ events[k].tool # "finalize"})

\* C24: a failure to write events.jsonl, the notes journal or notes.md never raises
\* into the tool loop and changes neither its control flow nor its return value,
\* and the event is still appended to the in-memory event list: with every write
\* failing the loop never stops on an exception, every step input and every tool
\* invocation has its event in memory, and an accepted finalize is what is returned.
C24_WriteFailureContained ==
    (pc # "idle" /\ cfg.disk_fails) =>
        /\ pc \in {"llm", "tools", "returned"}
        /\ trace.written = 0 /\ trace.notes = 0
        /\ CountEvents("step_input") = trace.llm_calls
        /\ RegularToolEvents = Len(trace.tools)
        /\ turn.path \in {"accepted", "rejected"} =>
               events[Len(events)].tool = "finalize"
        /\ (pc = "returned" /\ turn.path = "accepted") => finalize_args = Args(turn.cm)
        /\ (pc = "returned" /\ turn.path \notin {"accepted", "break"}) =>
               trace.llm_calls = cfg.max_steps

\* C24 witness: with every write failing, a run called a shell command that is
\* noted, had its finalize accepted and returned it, with all events in memory
C24_Witness ==
    /\ pc = "returned" /\ cfg.disk_fails
    /\ turn.path = "accepted" /\ finalize_args = Args("fix")
    /\ \E i \in 1..Len(trace.tools) : trace.tools[i].name = "shell"
    /\ \E k \in 1..Len(events) : events[k].tool = "shell" /\ events[k].result = "ok"
    /\ events[Len(events)].result = "finalize"
    /\ trace.written = 0 /\ trace.notes = 0

(***************************************************************************)
(* Turns without tool calls                                                *)
(***************************************************************************)
\* the step that has just run was a turn without tool calls
AfterNoCallTurn == turn.path \in {"text", "error", "nudge", "break"}

\* the plan is incomplete for the finalize validator, with plan gating on
PlanOpen ==
    /\ cfg.check_plan_completion /\ cfg.has_artifacts_dir
    /\ ValidatePlanCompletion(plan_json).incomplete

\* C25: a turn with no tool calls ends the loop if and only if its content is empty
\* and the plan is not incomplete (or gating is off, or there is no plan); a text
\* turn proceeds to the next step, and an empty turn while some step has a status
\* outside {completed, stuck} appends a continuation nudge and proceeds.
C25_NoCallTurn ==
    AfterNoCallTurn =>
        /\ turn.path = "break" <=> (~HasText(turn.content) /\ ~PlanOpen)
        /\ turn.path = "break" => pc = "returned"
        /\ turn.path # "break" =>
               /\ step_index = turn.step
               /\ pc = AfterStep(turn.step - 1, cfg.max_steps)
        /\ (/\ ~HasText(turn.content)
            /\ cfg.check_plan_completion /\ cfg.has_artifacts_dir
            /\ plan_json.kind = "valid" /\ IncompleteIdx(plan_json.steps) # {}) =>
               /\ turn.path = "nudge"
               /\ messages[Len(messages)].tag = "continue"

(***************************************************************************)
(* Transient context messages and trimming                                 *)
(***************************************************************************)
Transients(msgs) == {k \in 1..Len(msgs) : IsTransient(msgs[k])}

\* C26: the transient <plan> and <turns> messages injected at the start of a step
\* are removed before the step ends, on every path through the step: none is in
\* the history carried into the next step, none in the messages returned.
C26_TransientsRemoved ==
    pc \in {"llm", "returned"} => Transients(messages) = {}

\* message k of msgs answers a call that an assistant message before it carries:
\* the turn that emitted the call or the echo appended in front of the result
Announced(msgs, k) ==
    \E j \in 1..(k - 1) :
        /\ msgs[j].role = "ai" /\ msgs[j].tag \in {"calls", "echo"}
        /\ msgs[k].uids \subseteq msgs[j].uids

\* C27: after the history is trimmed at the end of a step, every ToolMessage that
\* remains is still preceded by the assistant message that announced its tool call:
\* neither the message count nor the character budget drops the announcement of a
\* tool result that is kept.
C27_TrimKeepsAnnouncement ==
    turn.path = "tools" =>
        \A k \in 1..Len(messages) : messages[k].role = "tool" => Announced(messages, k)

(***************************************************************************)
(* trim_messages                                                           *)
(***************************************************************************)
\* the last n messages of tail, in their order (all of tail when it has fewer)
LastN(tail, n) == SubSeq(tail, Max(1, Len(tail) - n + 1), Len(tail))

\* kept with its j oldest messages after the first removed
WithoutOldest(kept, j) == <<kept[1]>> \o SubSeq(kept, 2 + j, Len(kept))

Settled(ms, max_history_chars) == SumLen(ms) <= max_history_chars \/ Len(ms) <= 2

\* out is kept after dropping oldest non-first messages while the total is over
\* the budget and more than two messages remain
BudgetDrop(kept, out, max_history_chars) ==
    \E j \in 0..Len(kept) :
        /\ j <= Len(kept) - 1
        /\ out = WithoutOldest(kept, j)
        /\ Settled(out, max_history_chars)
        /\ \A i \in 0..(j - 1) : ~Settled(WithoutOldest(kept, i), max_history_chars)

\* C28: trim_messages with keep_last_messages = k >= 1 returns the first message
\* followed by the last k-1 of the other messages in their order, so at most k
\* messages, and then drops the oldest non-first messages while the total length
\* exceeds max_history_chars and more than two remain; with k = -1 no message is
\* dropped because of the count.
C28_TrimShape ==
    [][(pc = "build" /\ pc' = "trimmed" /\ messages # <<>>) =>
          LET k == cfg.keep_last_messages
              kept == IF k = -1 THEN messages
                      ELSE <<messages[1]>> \o LastN(Tail(messages), k - 1)
          IN /\ k >= 1 => Len(kept) <= k
             /\ BudgetDrop(kept, messages', cfg.max_history_chars)]_vars

(***************************************************************************)
(* Tool call ids                                                           *)
(***************************************************************************)
\* C29: every ToolMessage appended by the loop, for a regular tool, an unknown
\* tool name or a finalize call (accepted or rejected), carries the id of the call
\* it answers when the call has one, and a freshly synthesized non-empty id when
\* the call has none.
C29_ToolMessageIds ==
    [][(pc = "tools" /\ tool_calls # <<>> /\ pc' # "crashed") =>
          LET c == Head(tool_calls)
              new == SubSeq(messages', Len(messages) + 1, Len(messages'))
          IN \E k \in 1..Len(new) :
                /\ new[k].role = "tool" /\ new[k].uids = {c.uid}
                /\ new[k].call # ""
                /\ c.id # "" => new[k].call = c.id
                /\ c.id = "" => new[k].call # "call"]_vars

(***************************************************************************)
(* iteration.done of the coder                                             *)
(***************************************************************************)
\* the plan on disk has a step whose status is not completed
SomeStepOpen ==
    /\ plan_json.kind = "valid"
    /\ \E k \in 1..Len(plan_json.steps) : EffStatus(plan_json.steps[k]) # "completed"

\* C30: coder_node reports iteration.done = false whenever some plan step is
\* incomplete, and otherwise the done value of the accepted finalize: when finalize
\* was accepted with done = true and every plan step has been marked completed
\* through plan_update, iteration.done is true.
C30_CoderDone ==
    gstate.last = "coder" =>
        /\ SomeStepOpen => ~gstate.done
        /\ ~SomeStepOpen => (gstate.done <=> gstate.finalize = "done_true")

(***************************************************************************)
(* The done argument of finalize                                           *)
(***************************************************************************)
\* C31: an accepted finalize call that does not give the done argument counts as
\* done = true, the declared default: unified_agent_run then reports
\* iteration.done = true and the run is not reported as incomplete.
C31_DoneDefaultsTrue ==
    /\ (gstate.last = "unified" /\ gstate.finalize = "done_absent") => gstate.done
    /\ (gstate.last = "summary" /\ gstate.finalize = "done_absent") =>
           gstate.status # "incomplete"

(***************************************************************************)
(* Resuming the coder's conversation                                       *)
(***************************************************************************)
\* C32: whenever coder_node resumes a previous conversation, the history it hands
\* to the tool loop, capped at 60 prior messages, still begins with the original
\* first message, the one that carries the system instructions, whatever length
\* the history returned by the previous iteration had.
C32_ResumeKeepsFirst ==
    pc = "resumed" => messages[1] = Msg("human", "first", FirstLen, "")

(***************************************************************************)
(* Clipping of tool results                                                *)
(***************************************************************************)
\* C33: for every tool result text and every configured max_tool_result_chars >= 0,
\* the content of the ToolMessage appended for a regular tool call has a length of
\* at most max_tool_result_chars.
C33_ClipBound ==
    pc = "clip" =>
        \A k \in 1..Len(messages) :
            messages[k].role = "tool" => messages[k].len <= cfg.max_tool_result_chars

(***************************************************************************)
(* Well-formed patches through the apply_patch tool                        *)
(***************************************************************************)
ActionLines(lines) == {k \in 1..Len(lines) : lines[k].k \in {"add", "delete", "update"}}

\* an enveloped patch naming each path once, adding only paths that do not exist,
\* deleting and updating only files that exist, and which the engine applies
WellFormed(lines, tr) ==
    /\ Len(lines) >= 2 /\ lines[1].k = "begin" /\ lines[Len(lines)].k = "end"
    /\ ActionLines(lines) # {}
    /\ \A j, k \in ActionLines(lines) : j # k => lines[j].p # lines[k].p
    /\ \A k \in ActionLines(lines) :
          IF lines[k].k = "add" THEN ~tr[lines[k].p].exists ELSE tr[lines[k].p].exists
    /\ process_patch(lines, tr).res = "Done!"

\* C34: a well-formed patch applied through the apply_patch tool performs every
\* action it lists and returns 'Done!': an Add File creates the file, an Update
\* File rewrites it and a Delete File of an existing file removes it, also when
\* the patch consists of Delete File actions only.
C34_WellFormedApplied ==
    (patch_out.phase # "new" /\ WellFormed(patch_text, patch_out.orig)) =>
        /\ patch_out.res = "Done!"
        /\ patch_out.mid = process_patch(patch_text, patch_out.orig).tree
        /\ \A k \in ActionLines(patch_text) :
              IF patch_text[k].k = "delete" THEN ~patch_out.mid[patch_text[k].p].exists
              ELSE patch_out.mid[patch_text[k].p].exists

(***************************************************************************)
(* The four passes of the context search                                   *)
(***************************************************************************)
\* the context lies at index i (0-based) of lines when both are normalised by norm
WindowEq(lines, context, i, Norm(_)) ==
    /\ i + Len(context) <= Len(lines)
    /\ \A k \in 1..Len(context) : Norm(lines[i + k]) = Norm(context[k])

\* the first and the last context line lie at the ends of the window at index i
EndsEq(lines, context, i) ==
    /\ Len(context) >= 2
    /\ i + Len(context) <= Len(lines)
    /\ _canon_punct(lines[i + 1]) = _canon_punct(context[1])
    /\ _canon_punct(lines[i + Len(context)]) = _canon_punct(context[Len(context)])

\* pass number n matches at index i
PassAt(n, lines, context, i) ==
    IF n = 1 THEN WindowEq(lines, context, i, _canon_punct)
    ELSE IF n = 2 THEN WindowEq(lines, context, i, CanonR)
    ELSE IF n = 3 THEN WindowEq(lines, context, i, CanonS)
    ELSE EndsEq(lines, context, i)

PassHits(n, lines, context, start) ==
    {i \in start..(Len(lines) - 1) : PassAt(n, lines, context, i)}

FuzzOf(n) == IF n = 1 THEN 0 ELSE IF n = 2 THEN 1 ELSE IF n = 3 THEN 100 ELSE 200

\* C35: the context search tries the four passes in order, each over the whole
\* range from the cursor to the end of the file, and returns the first index of
\* the first pass that matches, with fuzz 0 for an exact match after
\* canonicalisation, 1 ignoring trailing whitespace, 100 ignoring surrounding
\* whitespace and 200 for the first and last context lines only; it reports
\* failure only when all four passes fail.
C35_FourPasses ==
    (patch_out.phase = "found" /\ Len(patch_text) > 0) =>
        LET hits(n) == PassHits(n, tree, patch_text, patch_out.start)
            passes == {n \in 1..4 : hits(n) # {}}
        IN IF passes = {}
           THEN patch_out.found = Found(-1, 0)
           ELSE LET n == CHOOSE m \in passes : \A o \in passes : m <= o
                IN /\ patch_out.found.fuzz = FuzzOf(n)
                   /\ patch_out.found.index \in hits(n)
                   /\ \A i \in hits(n) : patch_out.found.index <= i

\* C35 witness: the first three passes found nothing and the fourth found the
\* context by its first and last lines, over a middle line that differs
C35_Witness ==
    /\ patch_out.phase = "found"
    /\ patch_out.found.fuzz = 200 /\ patch_out.found.index >= patch_out.start
    /\ Len(patch_text) = 3
    /\ StripWs(_canon_punct(tree[patch_out.found.index + 2]))
          # StripWs(_canon_punct(patch_text[2]))

(***************************************************************************)
(* Repeated test-runner commands                                           *)
(***************************************************************************)
\* the commands of the test-runner group: npm, pnpm or yarn test, npx jest, jest
TestRunnerCommands == {"npm test", "pnpm test", "yarn test", "npx jest", "jest"}

\* how many of the first n shell calls of the loop ran a test-runner command
TestRunnerCount(calls, n) ==
    Cardinality({i \in 1..n : calls[i].command \in TestRunnerCommands})

\* the calls of the loop that were answered so far
Answered == {i \in 1..Len(cfg.calls) : \E k \in 1..Len(messages) :
                messages[k].role = "tool" /\ i \in messages[k].uids}

\* C36: within one tool loop, the third and every later shell invocation of a
\* test-runner command is not executed: its result is the text that begins with
\* SKIPPED_REPEAT_GROUP: TEST_RUNNER.
C36_TestRunnerSkipped ==
    ("calls" \in DOMAIN cfg) =>
        \A i \in Answered :
            (/\ cfg.calls[i].command \in TestRunnerCommands
             /\ TestRunnerCount(cfg.calls, i) >= 3)
            => /\ \A t \in 1..Len(trace.tools) : trace.tools[t].uid # i
               /\ \A k \in 1..Len(messages) :
                    (messages[k].role = "tool" /\ i \in messages[k].uids)
                        => messages[k].tag = "skipped_repeat_group"

PatchErrorAnswers ==
    {"ERROR: File not found", "ERROR: No files found in patch",
     "ERROR: Patch format error", "ERROR: Patch must start with",
     "ERROR: Unexpected error"}

\* C38: whenever apply_patch returns an error (a string starting with "ERROR:"),
\* the working tree is exactly as it was before the call: no action of the patch
\* has been applied, whatever the cause of the failure.
C38_ErrorLeavesTree ==
    (tool_out.tool = "apply_patch" /\ tool_out.res \in PatchErrorAnswers)
        => tree = tool_out.before

(***************************************************************************)
(* plan_update with ids that are not in the plan                           *)
(***************************************************************************)
\* the ids a marking call names
NamedIds(call) ==
    call.mc \cup call.ms
        \cup (IF call.mip \in {NoneId, ""} THEN {} ELSE {Str(call.mip)})

StepIds(steps) == {Str(steps[k].id) : k \in 1..Len(steps)}

\* C39: a plan_update call without steps whose mark_completed, mark_stuck and
\* mark_in_progress arguments name only ids that are not in the plan leaves the
\* status of every step unchanged.
C39_UnknownIdsNoChange ==
    [][(/\ ~plan_call.none /\ ~plan_call.given
        /\ NamedIds(plan_call) \cap StepIds(ExistingSteps(plan_json)) = {})
       => /\ Len(ExistingSteps(plan_json')) = Len(ExistingSteps(plan_json))
          /\ \A k \in 1..Len(ExistingSteps(plan_json)) :
                ExistingSteps(plan_json')[k].status = ExistingSteps(plan_json)[k].status]_vars

(***************************************************************************)
(* Plan gating without a readable plan                                     *)
(***************************************************************************)
\* there is no plan to gate on: no artifacts directory, no plan.json, or a
\* plan.json that cannot be parsed
NoReadablePlan == ~cfg.has_artifacts_dir \/ plan_json.kind \in {"absent", "corrupt"}

\* C40 (as stated): when no plan.json exists in the artifacts directory, when it
\* cannot be parsed, or when no artifacts directory is configured, a finalize call
\* with a non-empty commit_message is accepted even with check_plan_completion
\* enabled.
C40_NoPlanNoGate ==
    [][(AtFinalizeCall /\ NoReadablePlan /\ Head(tool_calls).cm \notin {NoneCm, ""})
           => AcceptedStep]_vars

\* C40 (amended): under the same conditions a finalize call whose commit_message
\* is non-empty after trimming whitespace is accepted, with check_plan_completion
\* enabled or not; one whose commit_message is whitespace only is rejected for the
\* missing message, never for the plan.
C40_NoPlanNoGateTrimmed ==
    [][(AtFinalizeCall /\ NoReadablePlan) =>
          /\ Head(tool_calls).cm \notin {NoneCm, "", " "} => AcceptedStep
          /\ Head(tool_calls).cm = " "
                => /\ RejectedStep
                   /\ turn'.ids = {}
                   /\ Len(messages') = Len(messages) + 2
                   /\ messages'[Len(messages')].len = NudgeLen]_vars

\* C40 witness: with check_plan_completion enabled, a finalize was accepted over a
\* plan.json that cannot be parsed
C40_Witness ==
    /\ cfg.check_plan_completion /\ cfg.has_artifacts_dir
    /\ plan_json = CorruptPlan
    /\ turn.path = "accepted"
    /\ finalize_args = Args("fix")

====
